---- MODULE Spec2Model ----
(***************************************************************************)
(* Model of AzureSearchQuery (src/azure_search_query_1.py): the            *)
(* single-index search, the filter builder and the multi-state fan-out     *)
(* search_multiple_states.  One call of search_multiple_states is followed *)
(* statement by statement: entry (defaulting of the target list), one loop *)
(* iteration per target (the call of search with its try/except), and the  *)
(* final sort, truncation and return.                                      *)
(***************************************************************************)
EXTENDS Integers, Sequences, FiniteSets, TLC

\* ------------------------------------------------------------------ bounds
\* Longest target list a caller passes.
MaxTargets == 2
\* Most documents of one index that match a query.
MaxDocs == 2
\* Largest result cap (request 'top' and configured top_k).
MaxTop == 2

\* ------------------------------------------------- python values, helpers
\* Python's None, and a present value, for the optional arguments.
None == [some |-> FALSE]
Some(x) == [some |-> TRUE, val |-> x]

\* Truth value of an optional list / dict argument: None and empty are falsy.
TruthySeq(o) == o.some /\ Len(o.val) > 0
\* Truth value of an optional integer argument: None and 0 are falsy.
TruthyInt(o) == o.some /\ o.val # 0

\* seq[:n] for n >= 0.
Take(seq, n) == SubSeq(seq, 1, IF n < Len(seq) THEN n ELSE Len(seq))

\* list.reverse()
Reverse(seq) == [k \in 1..Len(seq) |-> seq[Len(seq) + 1 - k]]

\* sep.join(parts)
RECURSIVE Join(_, _)
Join(parts, sep) ==
    IF Len(parts) = 0 THEN ""
    ELSE IF Len(parts) = 1 THEN parts[1]
    ELSE parts[1] \o sep \o Join(Tail(parts), sep)

\* All sequences over S of length at most n.
SeqsUpTo(S, n) == UNION {[1..k -> S] : k \in 0..n}

\* ---------------------------------------------------------- input domains
\* State codes a caller may name; "zz" is in no configuration.
RequestCodes == {"ia", "in", "zz"}
\* The configured 'states' mappings (keys in configuration order).
Universes == {<< >>, <<"ia">>, <<"in", "ia">>}
\* Relevance scores the indexes assign (tenths).
Scores == {5, 9}
\* Query strings.
Queries == {"medicaid"}
\* Messages of the faults the search service raises.
BackendErrors == {"Service unavailable"}
\* Filter mappings: a sequence of entries in the dict's iteration order; an
\* entry holds a scalar value or a range dict.
FilterInputs ==
    { None,
      Some(<< >>),
      Some(<< [field |-> "document_type", scalar |-> "policy"] >>) }

\* The rows of an index that match, as the service ranks them: by score,
\* best first (search passes no order_by).
Matchings ==
    { m \in SeqsUpTo(Scores, MaxDocs) :
        \A k \in 1..(Len(m) - 1) : m[k] >= m[k + 1] }
\* What the search service does with one request: a fault, or the matches.
BackendBehaviours ==
    { [fault |-> TRUE, msg |-> e] : e \in BackendErrors }
    \cup { [fault |-> FALSE, matching |-> m] : m \in Matchings }

\* ------------------------------------------------------------------ state
VARIABLES
    states,          \* self.states: configured state codes, in config order
    top_k,           \* self.top_k: configured default cap
    pc,              \* position in search_multiple_states
    request,         \* the caller's arguments
    state_codes,     \* local state_codes (after defaulting)
    idx,             \* position of the for loop in state_codes
    all_results,     \* local all_results
    state_summaries, \* local state_summaries
    search_calls,    \* the calls of self.search made so far, with outcome
    backend_calls,   \* the SearchClient.search requests issued so far
    result,          \* what search_multiple_states returned or raised
    builder,         \* one run of _build_filter_string: its locals
    api,             \* one request to the Flask endpoints: its handler
    handlers,        \* the locals of the request handlers not running now
    runner,          \* run_indexer.main and run_all_indexers
    monitor,         \* one call of monitor_indexer
    setup,           \* one call of setup_all_from_config
    uploader         \* test_upload: cleaning and document creation

\* The object and the locals of one call of search_multiple_states.
aggregator == << states, top_k, pc, request, state_codes, idx, all_results,
                 state_summaries, search_calls, backend_calls, result >>
\* Everything else.
others == << builder, api, handlers, runner, monitor,
                 setup, uploader >>

vars == << aggregator, others >>

\* The components that take no part in a specification stay off.
Off == [pc |-> "off"]
OthersOff ==
    /\ builder = Off
    /\ api = Off
    /\ handlers = Off
    /\ runner = Off
    /\ monitor = Off
    /\ setup = Off
    /\ uploader = Off

\* ------------------------------------------------------- configured states
\* self.states[state_code]['index'] and ['name'].
IndexName(state_code) == "index-" \o state_code
StateName(state_code) == "State " \o state_code

InStates(state_code) == \E k \in 1..Len(states) : states[k] = state_code

\* The message of the ValueError of _get_search_client.
InvalidStateMessage(state_code) ==
    "Invalid state code: " \o state_code \o ". Valid codes: "
        \o Join(states, ", ")

\* ---------------------------------------------------------- filter builder
RangeOps == << <<"gte", " ge ">>, <<"lte", " le ">>,
               <<"gt", " gt ">>, <<"lt", " lt ">> >>

\* Range handling written as an if/elif chain: only the first bound present
\* gives a clause.
EntryClauses_FirstBoundOnly(entry) ==
    IF "range" \in DOMAIN entry
    THEN LET present == { k \in 1..4 : RangeOps[k][1] \in DOMAIN entry.range }
             first == CHOOSE k \in present : \A j \in present : k <= j
         IN  IF present = {} THEN << >>
             ELSE << entry.field \o RangeOps[first][2]
                        \o entry.range[RangeOps[first][1]] >>
    ELSE << entry.field \o " eq '" \o entry.scalar \o "'" >>

\* Range handling that tests the strict bounds before the inclusive ones.
EntryClauses_StrictFirst(entry) ==
    IF "range" \in DOMAIN entry
    THEN LET Clause(k) ==
                 IF RangeOps[k][1] \in DOMAIN entry.range
                 THEN << entry.field \o RangeOps[k][2]
                            \o entry.range[RangeOps[k][1]] >>
                 ELSE << >>
         IN  Clause(3) \o Clause(4) \o Clause(1) \o Clause(2)
    ELSE << entry.field \o " eq '" \o entry.scalar \o "'" >>

\* The clauses one entry of the mapping appends to filter_parts.
EntryClauses(entry) ==
    IF "range" \in DOMAIN entry
    THEN LET Clause(k) ==
                 IF RangeOps[k][1] \in DOMAIN entry.range
                 THEN << entry.field \o RangeOps[k][2]
                            \o entry.range[RangeOps[k][1]] >>
                 ELSE << >>
         IN  Clause(1) \o Clause(2) \o Clause(3) \o Clause(4)
    ELSE << entry.field \o " eq '" \o entry.scalar \o "'" >>

RECURSIVE filter_parts(_)
filter_parts(filters) ==
    IF Len(filters) = 0 THEN << >>
    ELSE EntryClauses(Head(filters)) \o filter_parts(Tail(filters))

build_filter_string(filters) == Join(filter_parts(filters), " and ")

\* A cap tested against None only: a cap of 0 is kept.
EffectiveTop_NoneOnly(top) == IF top.some THEN top.val ELSE top_k

\* top_k = top if top else self.top_k
EffectiveTop(top) == IF TruthyInt(top) THEN top.val ELSE top_k

\* ------------------------------------------------------ single-index search
\* One result row as search builds it: the document of rank k of the index.
ResultData(state_code, k, score) ==
    [ parent_document |-> IndexName(state_code),
      page_number |-> k,
      score |-> score ]

\* A filter argument tested against None only: an empty mapping is built
\* into an empty filter string.
FilterStr_NoneOnly(filters) ==
    IF filters.some THEN Some(build_filter_string(filters.val)) ELSE None

\* filter_str = self._build_filter_string(filters) if filters else None
FilterStr(filters) ==
    IF TruthySeq(filters) THEN Some(build_filter_string(filters.val))
    ELSE None

\* A search that builds its client without checking the state code: the
\* request for an unknown code is sent, and the fault comes from the lookup
\* of the state's name afterwards.
search_NoValidation(query, state_code, top, filters, backend) ==
    LET sent == << [ index_name |-> IndexName(state_code),
                     search_text |-> query,
                     filter |-> FilterStr(filters),
                     top |-> EffectiveTop(top) ] >>
    IN  IF backend.fault \/ ~InStates(state_code)
        THEN [ raised |-> TRUE,
               kind |-> IF backend.fault THEN "HttpResponseError"
                        ELSE "KeyError",
               error |-> IF backend.fault THEN backend.msg ELSE state_code,
               sent |-> sent ]
        ELSE LET rows == Take(backend.matching, EffectiveTop(top))
                 search_results ==
                     [ k \in 1..Len(rows) |->
                         ResultData(state_code, k, rows[k]) ]
             IN  [ raised |-> FALSE,
                   sent |-> sent,
                   response |->
                       [ query |-> query,
                         state |-> state_code,
                         state_name |-> StateName(state_code),
                         total_count |-> Len(backend.matching),
                         results_count |-> Len(search_results),
                         results |-> search_results ] ]

\* self.search(query, state_code, top, filters) against a service behaving as
\* `backend`: what it raises or returns, and the requests it sent.
search(query, state_code, top, filters, backend) ==
    IF ~InStates(state_code)
    THEN [ raised |-> TRUE,
           kind |-> "ValueError",
           error |-> InvalidStateMessage(state_code),
           sent |-> << >> ]
    ELSE LET filter_str == FilterStr(filters)
             sent == << [ index_name |-> IndexName(state_code),
                          search_text |-> query,
                          filter |-> filter_str,
                          top |-> EffectiveTop(top) ] >>
         IN  IF backend.fault
             THEN [ raised |-> TRUE, kind |-> "HttpResponseError",
                    error |-> backend.msg, sent |-> sent ]
             ELSE LET rows == Take(backend.matching, EffectiveTop(top))
                      search_results ==
                          [ k \in 1..Len(rows) |->
                              ResultData(state_code, k, rows[k]) ]
                  IN  [ raised |-> FALSE,
                        sent |-> sent,
                        response |->
                            [ query |-> query,
                              state |-> state_code,
                              state_name |-> StateName(state_code),
                              total_count |-> Len(backend.matching),
                              results_count |-> Len(search_results),
                              results |-> search_results ] ]

\* ------------------------------------------------------------ list.sort
\* An insertion that takes a document of a score already present for a
\* duplicate and leaves it out.
RECURSIVE InsertAscending_DropEqual(_, _)
InsertAscending_DropEqual(sorted, x) ==
    IF Len(sorted) = 0 THEN << x >>
    ELSE IF x.score < Head(sorted).score THEN << x >> \o sorted
    ELSE IF x.score = Head(sorted).score THEN sorted
    ELSE << Head(sorted) >> \o InsertAscending_DropEqual(Tail(sorted), x)

\* Insertion of x into an ascending list, after the elements of equal key.
RECURSIVE InsertAscending(_, _)
InsertAscending(sorted, x) ==
    IF Len(sorted) = 0 THEN << x >>
    ELSE IF x.score < Head(sorted).score THEN << x >> \o sorted
    ELSE << Head(sorted) >> \o InsertAscending(Tail(sorted), x)

RECURSIVE SortAscending(_)
SortAscending(seq) ==
    IF Len(seq) = 0 THEN << >>
    ELSE InsertAscending(SortAscending(SubSeq(seq, 1, Len(seq) - 1)),
                         seq[Len(seq)])

\* A descending sort made of an ascending sort and one reversal: documents
\* of equal score come out in reverse order of arrival.
SortByScoreReverse_TiesReversed(seq) == Reverse(SortAscending(seq))

\* all_results.sort(key=lambda x: x['score'], reverse=True): the list is
\* reversed, sorted ascending and stably, and reversed again.
SortByScoreReverse(seq) == Reverse(SortAscending(Reverse(seq)))

\* ------------------------------------------------- search_multiple_states
NoRequest == [query |-> "", state_codes |-> None, top |-> None,
              filters |-> None]
NoResult == [returned |-> FALSE, raised |-> FALSE]

Init ==
    /\ states \in Universes
    /\ top_k \in 1..MaxTop
    /\ pc = "idle"
    /\ request = NoRequest
    /\ state_codes = << >>
    /\ idx = 0
    /\ all_results = << >>
    /\ state_summaries = << >>
    /\ search_calls = << >>
    /\ backend_calls = << >>
    /\ result = NoResult
    /\ OthersOff

\* A defaulting that tests for None only: an empty list stays empty.
DefaultedCodes_NoneOnly(codes) ==
    IF ~codes.some THEN states ELSE codes.val

\* if not state_codes: state_codes = list(self.states.keys())
DefaultedCodes(codes) ==
    IF ~TruthySeq(codes) THEN states ELSE codes.val

\* Entry of search_multiple_states(query, state_codes, top, filters): the
\* defaulting of the target list and the empty accumulators.
EnterWith(query, codes, top, filters) ==
    /\ pc = "idle"
    /\ request' = [query |-> query, state_codes |-> codes,
                   top |-> top, filters |-> filters]
    /\ state_codes' = DefaultedCodes(codes)
    /\ all_results' = << >>
    /\ state_summaries' = << >>
    /\ idx' = 1
    /\ pc' = "loop"
    /\ UNCHANGED << states, top_k, search_calls, backend_calls, result >>

\* A call with any arguments.
Enter ==
    /\ \E query \in Queries,
          codes \in {None} \cup {Some(s) : s \in SeqsUpTo(RequestCodes, MaxTargets)},
          top \in {None} \cup {Some(n) : n \in 0..MaxTop},
          filters \in FilterInputs :
          EnterWith(query, codes, top, filters)
    /\ UNCHANGED others

\* The summary appended for a target whose search returned.
SuccessSummary(state_code, response) ==
    [ state |-> state_code,
      state_name |-> response.state_name,
      results_count |-> response.results_count,
      total_count |-> response.total_count ]

\* The summary appended for a target whose search raised.
FailureSummary(state_code, error) ==
    [ state |-> state_code, error |-> error ]

\* A call that does not forward the cap: search falls back to top_k.
CallSearch_TopNotForwarded(state_code, backend) ==
    [ args |-> [ query |-> request.query, state_code |-> state_code,
                 top |-> None, filters |-> request.filters ],
      out |-> search(request.query, state_code, None,
                     request.filters, backend) ]

\* result = self.search(query, state_code, top, filters), with the arguments
\* the call was given.
CallSearch(state_code, backend) ==
    [ args |-> [ query |-> request.query, state_code |-> state_code,
                 top |-> request.top, filters |-> request.filters ],
      out |-> search(request.query, state_code, request.top,
                     request.filters, backend) ]

\* An except branch that only logs: a failed target leaves no summary.
NextSummaries_DropFailure(state_code, out) ==
    IF out.raised
    THEN state_summaries
    ELSE Append(state_summaries, SuccessSummary(state_code, out.response))

\* state_summaries after the iteration for state_code.
NextSummaries(state_code, out) ==
    IF out.raised
    THEN Append(state_summaries, FailureSummary(state_code, out.error))
    ELSE Append(state_summaries, SuccessSummary(state_code, out.response))

\* all_results after the iteration.
NextResults(out) ==
    IF out.raised THEN all_results
    ELSE all_results \o out.response.results

\* The entry of the call log for one call of self.search.
LoggedCall(call) ==
    [ query |-> call.args.query, state_code |-> call.args.state_code,
      top |-> call.args.top, filters |-> call.args.filters,
      raised |-> call.out.raised,
      error |-> IF call.out.raised THEN call.out.error ELSE "",
      total_count |-> IF call.out.raised THEN 0
                      ELSE call.out.response.total_count,
      results |-> IF call.out.raised THEN << >>
                  ELSE call.out.response.results ]

\* A loop body without the inner try/except: the fault of one target
\* leaves search_multiple_states through the outer handler, which re-raises.
LoopBody_Propagate(backend) ==
    LET state_code == state_codes[idx]
        call == CallSearch(state_code, backend)
    IN  /\ search_calls' = Append(search_calls, LoggedCall(call))
        /\ backend_calls' = backend_calls \o call.out.sent
        /\ IF call.out.raised
           THEN /\ result' = [ returned |-> FALSE, raised |-> TRUE,
                               error |-> call.out.error ]
                /\ pc' = "done"
                /\ UNCHANGED << state_summaries, all_results, idx >>
           ELSE /\ state_summaries' = NextSummaries(state_code, call.out)
                /\ all_results' = NextResults(call.out)
                /\ idx' = idx + 1
                /\ UNCHANGED << pc, result >>
        /\ UNCHANGED << states, top_k, request, state_codes >>

\* One iteration of the for loop: search the target, then extend the
\* accumulator and append a summary, or catch the fault and append an error.
LoopBody(backend) ==
    LET state_code == state_codes[idx]
        call == CallSearch(state_code, backend)
    IN  /\ search_calls' = Append(search_calls, LoggedCall(call))
        /\ backend_calls' = backend_calls \o call.out.sent
        /\ state_summaries' = NextSummaries(state_code, call.out)
        /\ all_results' = NextResults(call.out)
        /\ idx' = idx + 1
        /\ UNCHANGED << states, top_k, pc, request, state_codes, result >>

SearchLeg ==
    /\ pc = "loop"
    /\ idx <= Len(state_codes)
    /\ \E backend \in BackendBehaviours : LoopBody(backend)
    /\ UNCHANGED others

\* A return value truncated to the configured default, whatever the request.
ReturnValue_DefaultCapOnly(sorted) ==
    [ returned |-> TRUE,
      raised |-> FALSE,
      query |-> request.query,
      states_searched |-> state_codes,
      state_summaries |-> state_summaries,
      total_results |-> Len(sorted),
      top_results |-> Take(sorted, top_k),
      all_results |-> sorted ]

\* A return value whose top_results is the whole sorted list.
ReturnValue_NoTruncation(sorted) ==
    [ returned |-> TRUE,
      raised |-> FALSE,
      query |-> request.query,
      states_searched |-> state_codes,
      state_summaries |-> state_summaries,
      total_results |-> Len(sorted),
      top_results |-> sorted,
      all_results |-> sorted ]

\* A return value that counts the documents after the truncation.
ReturnValue_TotalAfterTruncation(sorted) ==
    [ returned |-> TRUE,
      raised |-> FALSE,
      query |-> request.query,
      states_searched |-> state_codes,
      state_summaries |-> state_summaries,
      total_results |-> Len(Take(sorted, EffectiveTop(request.top))),
      top_results |-> Take(sorted, EffectiveTop(request.top)),
      all_results |-> sorted ]

\* The dictionary search_multiple_states returns, from the sorted list.
ReturnValue(sorted) ==
    [ returned |-> TRUE,
      raised |-> FALSE,
      query |-> request.query,
      states_searched |-> state_codes,
      state_summaries |-> state_summaries,
      total_results |-> Len(sorted),
      top_results |-> Take(sorted, EffectiveTop(request.top)),
      all_results |-> sorted ]

\* An ending that keeps the cap of this call in the object.
Finish_StoresCap ==
    /\ pc = "loop"
    /\ idx > Len(state_codes)
    /\ all_results' = SortByScoreReverse(all_results)
    /\ top_k' = EffectiveTop(request.top)
    /\ result' = [ returned |-> TRUE,
                   raised |-> FALSE,
                   query |-> request.query,
                   states_searched |-> state_codes,
                   state_summaries |-> state_summaries,
                   total_results |-> Len(all_results'),
                   top_results |-> Take(all_results', top_k'),
                   all_results |-> all_results' ]
    /\ pc' = "done"
    /\ UNCHANGED << states, request, state_codes, idx,
                    state_summaries, search_calls, backend_calls >>
    /\ UNCHANGED others

\* An ending that refuses an empty target list with a configuration error.
Finish_RaiseOnEmpty ==
    /\ pc = "loop"
    /\ idx > Len(state_codes)
    /\ all_results' = SortByScoreReverse(all_results)
    /\ result' = IF Len(state_codes) = 0
                 THEN [ returned |-> FALSE, raised |-> TRUE,
                        error |-> "No states configured" ]
                 ELSE ReturnValue(all_results')
    /\ pc' = "done"
    /\ UNCHANGED << states, top_k, request, state_codes, idx,
                    state_summaries, search_calls, backend_calls >>
    /\ UNCHANGED others

\* After the loop: sort in place, truncate, return.
Finish ==
    /\ pc = "loop"
    /\ idx > Len(state_codes)
    /\ all_results' = SortByScoreReverse(all_results)
    /\ result' = ReturnValue(all_results')
    /\ pc' = "done"
    /\ UNCHANGED << states, top_k, request, state_codes, idx,
                    state_summaries, search_calls, backend_calls >>
    /\ UNCHANGED others

\* The caller has the result: the locals of the call are gone, the object
\* stays as it is for the next call.
Return ==
    /\ pc = "done"
    /\ pc' = "idle"
    /\ request' = NoRequest
    /\ state_codes' = << >>
    /\ idx' = 0
    /\ all_results' = << >>
    /\ state_summaries' = << >>
    /\ search_calls' = << >>
    /\ backend_calls' = << >>
    /\ result' = NoResult
    /\ UNCHANGED << states, top_k >>
    /\ UNCHANGED others

Next == Enter \/ SearchLeg \/ Finish \/ Return

Spec == Init /\ [][Next]_vars

\* ======================================================= the filter builder
\* Most entries of a filter mapping.
MaxEntries == 2
\* self.config.get('top_k', 5)
TopKDefault == 5

\* Field names, scalar values and bound values of the filter mappings.
BuilderFields == {"page_number", "document_type", "parent_document"}
BuilderScalars == {"policy", "o'hare"}
BoundValue == "2024"
\* The range dicts: any of the four bounds present, none included.
BuilderRanges ==
    { [b \in present |-> BoundValue] :
        present \in SUBSET {"gte", "lte", "gt", "lt"} }
BuilderEntries ==
    { [field |-> f, scalar |-> v] : f \in BuilderFields, v \in BuilderScalars }
    \cup { [field |-> f, range |-> r] : f \in BuilderFields, r \in BuilderRanges }
\* The mappings: a dict has each key once.
BuilderInputs ==
    { m \in SeqsUpTo(BuilderEntries, MaxEntries) :
        \A i, j \in 1..Len(m) : i # j => m[i].field # m[j].field }

\* The object and the call of search_multiple_states, not in use.
AggregatorOff ==
    /\ states = << >>
    /\ top_k = TopKDefault
    /\ pc = "idle"
    /\ request = NoRequest
    /\ state_codes = << >>
    /\ idx = 0
    /\ all_results = << >>
    /\ state_summaries = << >>
    /\ search_calls = << >>
    /\ backend_calls = << >>
    /\ result = NoResult

\* _build_filter_string(filters) is called: filter_parts = []
BuilderInit ==
    /\ AggregatorOff
    /\ builder \in { [ pc |-> "loop", filters |-> f, i |-> 1,
                        filter_parts |-> << >>, out |-> "" ] :
                      f \in BuilderInputs }
    /\ api = Off
    /\ handlers = Off
    /\ runner = Off
    /\ monitor = Off
    /\ setup = Off
    /\ uploader = Off

\* One iteration of `for field, value in filters.items()`.
BuilderStep ==
    /\ builder.pc = "loop"
    /\ builder.i <= Len(builder.filters)
    /\ builder' = [ builder EXCEPT
                      !.filter_parts =
                          @ \o EntryClauses(builder.filters[builder.i]),
                      !.i = @ + 1 ]
    /\ UNCHANGED << aggregator, api, handlers, runner, monitor,
                 setup, uploader >>

\* return ' and '.join(filter_parts)
BuilderJoin ==
    /\ builder.pc = "loop"
    /\ builder.i > Len(builder.filters)
    /\ builder' = [ builder EXCEPT
                      !.out = Join(builder.filter_parts, " and "),
                      !.pc = "done" ]
    /\ UNCHANGED << aggregator, api, handlers, runner, monitor,
                 setup, uploader >>

BuilderNext == BuilderStep \/ BuilderJoin

BuilderSpec == BuilderInit /\ [][BuilderNext]_vars

\* ======================================================= the HTTP endpoints
\* What search_config.json holds when a handler constructs AzureSearchQuery:
\* no file, text that is not JSON, a top_k that int() refuses, or a
\* configuration.
ConfigFiles ==
    { [kind |-> "missing"],
      [kind |-> "invalid_json"],
      [kind |-> "bad_top_k"],
      [kind |-> "ok", states |-> <<"in", "ia">>, top_k |-> MaxTop] }

\* Truth value of an optional string: None and "" are falsy.
TruthyStr(o) == o.some /\ o.val # ""

\* The requests: a body that is not JSON, a JSON body that is no object
\* (request.json is a list), or an object with its fields.
OptionalQueries == {None, Some(""), Some("medicaid")}
SearchBodies ==
    { [shape |-> "not_json"], [shape |-> "non_object"] }
    \cup { [shape |-> "object", query |-> q, state |-> st, top |-> t,
            filters |-> None] :
            q \in OptionalQueries,
            st \in {None, Some("ia"), Some("zz")},
            t \in {None, Some(1)} }
MultiBodies ==
    { [shape |-> "not_json"], [shape |-> "non_object"] }
    \cup { [shape |-> "object", query |-> q, states |-> sts, top |-> t,
            filters |-> None] :
            q \in OptionalQueries,
            sts \in {None, Some(<<"zz">>), Some(<<"ia", "zz">>)},
            t \in {None, Some(1)} }

\* AzureSearchQuery(config_path): what __init__ raises or sets.
Construct(config) ==
    IF config.kind = "invalid_json"
    THEN [ raised |-> TRUE, kind |-> "JSONDecodeError",
           error |-> "Expecting value: line 1 column 1 (char 0)" ]
    ELSE IF config.kind = "bad_top_k"
    THEN [ raised |-> TRUE, kind |-> "ValueError",
           error |-> "invalid literal for int() with base 10" ]
    ELSE IF config.kind = "missing"
    THEN [ raised |-> FALSE, states |-> << >>, top_k |-> TopKDefault ]
    ELSE [ raised |-> FALSE, states |-> config.states,
           top_k |-> config.top_k ]

\* isinstance(e, ValueError): json.JSONDecodeError is a ValueError.
IsValueError(kind) == kind \in {"ValueError", "JSONDecodeError"}

\* The except clauses of search_api.
SearchApiStatus(kind) == IF IsValueError(kind) THEN 400 ELSE 500
\* The except clause of multi_state_search_api.
MultiApiStatus(kind) == 500

ApiIdle(config) ==
    [ pc |-> "listening", endpoint |-> "none", body |-> [shape |-> "none"],
      config |-> config, constructed |-> FALSE, status |-> 0,
      message |-> "", origin |-> "none" ]

\* The handler returns jsonify(...), status.  origin names what the answer
\* is about: the checks of the request ("request"), a JSON body that is no
\* object ("body"), the construction ("config"), an unknown state code, the
\* search service ("backend"), a fault of search_multiple_states
\* ("aggregator"), or no fault.
Respond(status, message, origin) ==
    api' = [ api EXCEPT !.pc = "responded", !.status = status,
                        !.message = message, !.origin = origin ]

ApiInit ==
    /\ AggregatorOff
    /\ api \in { ApiIdle(c) : c \in ConfigFiles }
    /\ builder = Off
    /\ handlers = Off
    /\ runner = Off
    /\ monitor = Off
    /\ setup = Off
    /\ uploader = Off

ApiFrame == UNCHANGED << builder, handlers, runner, monitor,
                 setup, uploader >>

\* search_api up to the construction of the searcher: the checks of the body.
ApiSearchReceive ==
    /\ api.pc = "listening"
    /\ \E body \in SearchBodies :
          LET got == [api EXCEPT !.endpoint = "search", !.body = body]
          IN  IF body.shape = "not_json"
              THEN api' = [ got EXCEPT !.pc = "responded", !.status = 400,
                                       !.message = "Request must be JSON",
                                       !.origin = "request" ]
              ELSE IF body.shape = "non_object"
              THEN api' = [ got EXCEPT
                              !.pc = "responded",
                              !.status = SearchApiStatus("AttributeError"),
                              !.message = "'list' object has no attribute 'get'",
                              !.origin = "body" ]
              ELSE IF ~TruthyStr(body.query) \/ ~TruthyStr(body.state)
              THEN api' = [ got EXCEPT
                              !.pc = "responded", !.status = 400,
                              !.message = "Both 'query' and 'state' are required",
                              !.origin = "request" ]
              ELSE api' = [ got EXCEPT !.pc = "validated" ]
    /\ UNCHANGED aggregator
    /\ ApiFrame

\* multi_state_search_api up to the construction of the searcher.
ApiMultiReceive ==
    /\ api.pc = "listening"
    /\ \E body \in MultiBodies :
          LET got == [api EXCEPT !.endpoint = "multi", !.body = body]
          IN  IF body.shape = "not_json"
              THEN api' = [ got EXCEPT !.pc = "responded", !.status = 400,
                                       !.message = "Request must be JSON",
                                       !.origin = "request" ]
              ELSE IF body.shape = "non_object"
              THEN api' = [ got EXCEPT
                              !.pc = "responded",
                              !.status = MultiApiStatus("AttributeError"),
                              !.message = "'list' object has no attribute 'get'",
                              !.origin = "body" ]
              ELSE IF ~TruthyStr(body.query)
              THEN api' = [ got EXCEPT !.pc = "responded", !.status = 400,
                                       !.message = "'query' is required",
                                       !.origin = "request" ]
              ELSE api' = [ got EXCEPT !.pc = "validated" ]
    /\ UNCHANGED aggregator
    /\ ApiFrame

\* searcher = AzureSearchQuery(config_path=config_path), in either handler.
ApiConstruct ==
    /\ api.pc = "validated"
    /\ LET made == Construct(api.config)
       IN  IF made.raised
           THEN /\ Respond(IF api.endpoint = "search"
                           THEN SearchApiStatus(made.kind)
                           ELSE MultiApiStatus(made.kind),
                           made.error, "config")
                /\ UNCHANGED << states, top_k >>
           ELSE /\ api' = [ api EXCEPT !.pc = "constructed",
                                       !.constructed = TRUE ]
                /\ states' = made.states
                /\ top_k' = made.top_k
    /\ UNCHANGED << pc, request, state_codes, idx, all_results,
                    state_summaries, search_calls, backend_calls, result >>
    /\ ApiFrame

\* search_api: searcher.search(...) and the answer.
ApiSearchRun ==
    /\ api.pc = "constructed"
    /\ api.endpoint = "search"
    /\ \E backend \in BackendBehaviours :
          LET out == search(api.body.query.val, api.body.state.val,
                            api.body.top, api.body.filters, backend)
          IN  /\ backend_calls' = backend_calls \o out.sent
              /\ IF out.raised
                 THEN Respond(SearchApiStatus(out.kind), out.error,
                              IF out.sent = << >> THEN "state_code"
                              ELSE "backend")
                 ELSE Respond(200, "", "none")
    /\ UNCHANGED << states, top_k, pc, request, state_codes, idx, all_results,
                    state_summaries, search_calls, result >>
    /\ ApiFrame

\* multi_state_search_api: searcher.search_multiple_states(...) is entered.
ApiMultiCall ==
    /\ api.pc = "constructed"
    /\ api.endpoint = "multi"
    /\ EnterWith(api.body.query.val, api.body.states, api.body.top,
                 api.body.filters)
    /\ api' = [api EXCEPT !.pc = "running"]
    /\ ApiFrame

\* multi_state_search_api: the call is over, the answer goes out.
ApiMultiRespond ==
    /\ api.pc = "running"
    /\ pc = "done"
    /\ IF result.raised
       THEN Respond(MultiApiStatus("Exception"), result.error, "aggregator")
       ELSE Respond(200, "", "none")
    /\ UNCHANGED aggregator
    /\ ApiFrame

ApiNext ==
    \/ ApiSearchReceive
    \/ ApiMultiReceive
    \/ ApiConstruct
    \/ ApiSearchRun
    \/ ApiMultiCall
    \/ SearchLeg
    \/ Finish
    \/ ApiMultiRespond

ApiSpec == ApiInit /\ [][ApiNext]_vars

\* ================================================ two requests in flight
\* Two requests to /api/search/multi-state are handled by two threads.  The
\* variables of the aggregator hold the object and the locals of the thread
\* that runs; those of the other thread are kept in `handlers` until the
\* scheduler switches.
ConcRequests ==
    { [query |-> "medicaid", state_codes |-> c, top |-> t, filters |-> None] :
        c \in {Some(<<"ia">>), Some(<<"zz", "ia">>)},
        t \in {None, Some(1)} }

\* The object a handler built (line 395) and the locals of its call.
Locals ==
    [ states |-> states, top_k |-> top_k, pc |-> pc, request |-> request,
      state_codes |-> state_codes, idx |-> idx, all_results |-> all_results,
      state_summaries |-> state_summaries, search_calls |-> search_calls,
      backend_calls |-> backend_calls, result |-> result ]

ConcInit ==
    /\ states = <<"in", "ia">>
    /\ top_k = MaxTop
    /\ pc = "idle"
    /\ request = NoRequest
    /\ state_codes = << >>
    /\ idx = 0
    /\ all_results = << >>
    /\ state_summaries = << >>
    /\ search_calls = << >>
    /\ backend_calls = << >>
    /\ result = NoResult
    /\ handlers = [ pc |-> "on", preempted |-> FALSE, saved |-> Locals ]
    /\ builder = Off
    /\ api = Off
    /\ runner = Off
    /\ monitor = Off
    /\ setup = Off
    /\ uploader = Off

\* A handler calls search_multiple_states with the fields of its request.
ConcEnter ==
    /\ \E r \in ConcRequests :
          EnterWith(r.query, r.state_codes, r.top, r.filters)
    /\ UNCHANGED others

\* A switch in which the accumulator is one list for all requests (a module
\* level all_results) instead of a local of the call.
Switch_SharedAccumulator ==
    /\ handlers' = [ handlers EXCEPT
                       !.saved = Locals,
                       !.preempted = @ \/ pc = "loop" ]
    /\ states' = handlers.saved.states
    /\ top_k' = handlers.saved.top_k
    /\ pc' = handlers.saved.pc
    /\ request' = handlers.saved.request
    /\ state_codes' = handlers.saved.state_codes
    /\ idx' = handlers.saved.idx
    /\ UNCHANGED all_results
    /\ state_summaries' = handlers.saved.state_summaries
    /\ search_calls' = handlers.saved.search_calls
    /\ backend_calls' = handlers.saved.backend_calls
    /\ result' = handlers.saved.result
    /\ UNCHANGED << builder, api, runner, monitor,
                 setup, uploader >>

\* The scheduler lets the other thread run: each thread has its own
\* AzureSearchQuery and its own locals, nothing is common to both.
Switch ==
    /\ handlers' = [ handlers EXCEPT
                       !.saved = Locals,
                       !.preempted = @ \/ pc = "loop" ]
    /\ states' = handlers.saved.states
    /\ top_k' = handlers.saved.top_k
    /\ pc' = handlers.saved.pc
    /\ request' = handlers.saved.request
    /\ state_codes' = handlers.saved.state_codes
    /\ idx' = handlers.saved.idx
    /\ all_results' = handlers.saved.all_results
    /\ state_summaries' = handlers.saved.state_summaries
    /\ search_calls' = handlers.saved.search_calls
    /\ backend_calls' = handlers.saved.backend_calls
    /\ result' = handlers.saved.result
    /\ UNCHANGED << builder, api, runner, monitor,
                 setup, uploader >>

ConcNext == ConcEnter \/ SearchLeg \/ Finish \/ Switch

ConcSpec == ConcInit /\ [][ConcNext]_vars

\* ======================================================== run_indexer.py
\* The states of AzureIndexerRunner, in the order of the dictionary.
RunnerStateCodes == <<"ia", "in", "oh", "tx", "va", "wa">>

IndexerKinds == {"state", "common"}

IndexerName(state_code, kind) ==
    IF kind = "state" THEN "indexer-" \o state_code
    ELSE "indexer-" \o state_code \o "-common"

KnownState(state_code) ==
    \E k \in 1..Len(RunnerStateCodes) : RunnerStateCodes[k] = state_code

\* The indexers a call with this indexer_type addresses.
KindsOf(indexer_type) ==
    (IF indexer_type \in {"state", "both"} THEN {"state"} ELSE {})
        \cup (IF indexer_type \in {"common", "both"} THEN {"common"} ELSE {})

\* A run that leaves the common indexer alone once the state indexer has
\* failed.
Attempts_StopAfterFailure(state_code, indexer_type, ok) ==
    (IF indexer_type \in {"state", "both"}
     THEN << [ name |-> IndexerName(state_code, "state"),
               ok |-> ok["state"] ] >>
     ELSE << >>)
        \o (IF indexer_type = "common"
               \/ (indexer_type = "both" /\ ok["state"])
            THEN << [ name |-> IndexerName(state_code, "common"),
                      ok |-> ok["common"] ] >>
            ELSE << >>)

\* The calls made on the indexer client, in order, each with its outcome:
\* the state indexer first, then the common one, whatever the first gave.
Attempts(state_code, indexer_type, ok) ==
    (IF indexer_type \in {"state", "both"}
     THEN << [ name |-> IndexerName(state_code, "state"),
               ok |-> ok["state"] ] >>
     ELSE << >>)
        \o (IF indexer_type \in {"common", "both"}
            THEN << [ name |-> IndexerName(state_code, "common"),
                      ok |-> ok["common"] ] >>
            ELSE << >>)

\* run_indexer: ok[k] tells whether the client started the indexer of kind k
\* without raising.  It returns a flag and never raises.
run_indexer(state_code, indexer_type, ok) ==
    IF ~KnownState(state_code)
    THEN [ value |-> FALSE, started |-> {}, failed |-> {},
           attempted |-> << >> ]
    ELSE LET kinds == KindsOf(indexer_type)
         IN  [ value |-> kinds # {} /\ \A k \in kinds : ok[k],
               started |-> { IndexerName(state_code, k) :
                               k \in { j \in kinds : ok[j] } },
               failed |-> { IndexerName(state_code, k) :
                               k \in { j \in kinds : ~ok[j] } },
               attempted |-> Attempts(state_code, indexer_type, ok) ]

\* reset_indexer: the same two steps with the reset call of the client.
reset_indexer(state_code, indexer_type, ok) ==
    IF ~KnownState(state_code)
    THEN [ value |-> FALSE, attempted |-> << >> ]
    ELSE LET results == Attempts(state_code, indexer_type, ok)
         IN  [ value |-> IF results = << >> THEN FALSE
                         ELSE \A k \in 1..Len(results) : results[k].ok,
               attempted |-> results ]

RunnerIdle ==
    [ pc |-> "start", pos |-> 0, calls |-> << >>, results |-> << >>,
      started |-> {}, failed |-> {}, summary |-> << >>, printed |-> << >> ]

RunnerInit ==
    /\ runner = RunnerIdle
    /\ AggregatorOff
    /\ builder = Off
    /\ api = Off
    /\ handlers = Off
    /\ monitor = Off
    /\ setup = Off
    /\ uploader = Off

RunnerFrame == UNCHANGED << aggregator, builder, api, handlers, monitor,
                 setup, uploader >>

\* main builds the runner; a fault of the constructor is reported and
\* raised again.
RunnerConstruct ==
    /\ runner.pc = "start"
    /\ \E fault \in BOOLEAN :
          runner' = IF fault
                    THEN [ runner EXCEPT
                             !.pc = "raised",
                             !.printed = <<"Operation failed">> ]
                    ELSE [ runner EXCEPT !.pc = "loop" ]
    /\ RunnerFrame

\* A loop that ends at the first state whose run fails.
RunnerRunState_StopsOnFailure ==
    /\ runner.pc = "loop"
    /\ runner.pos < Len(RunnerStateCodes)
    /\ \E ok \in [IndexerKinds -> BOOLEAN] :
          LET state_code == RunnerStateCodes[runner.pos + 1]
              success == run_indexer(state_code, "both", ok)
          IN  runner' = [ runner EXCEPT
                            !.pos = IF success.value THEN @ + 1
                                    ELSE Len(RunnerStateCodes),
                            !.calls = Append(@, state_code),
                            !.results = Append(@, success.value),
                            !.started = @ \cup success.started,
                            !.failed = @ \cup success.failed ]
    /\ RunnerFrame

\* One round of the loop of run_all_indexers('both').
RunnerRunState ==
    /\ runner.pc = "loop"
    /\ runner.pos < Len(RunnerStateCodes)
    /\ \E ok \in [IndexerKinds -> BOOLEAN] :
          LET state_code == RunnerStateCodes[runner.pos + 1]
              success == run_indexer(state_code, "both", ok)
          IN  runner' = [ runner EXCEPT
                            !.pos = @ + 1,
                            !.calls = Append(@, state_code),
                            !.results = Append(@, success.value),
                            !.started = @ \cup success.started,
                            !.failed = @ \cup success.failed ]
    /\ RunnerFrame

\* The summary of run_all_indexers: one line per state.
RunnerSummary ==
    /\ runner.pc = "loop"
    /\ runner.pos = Len(RunnerStateCodes)
    /\ runner' = [ runner EXCEPT
                     !.pc = "summarised",
                     !.summary =
                         [ k \in 1..Len(runner.results) |->
                             IF runner.results[k] THEN "Success"
                             ELSE "Failed" ] ]
    /\ RunnerFrame

\* main after run_all_indexers has returned.
RunnerReport ==
    /\ runner.pc = "summarised"
    /\ runner' = [ runner EXCEPT
                     !.pc = "done",
                     !.printed =
                         <<"All indexers have been started successfully!">> ]
    /\ RunnerFrame

RunnerNext ==
    RunnerConstruct \/ RunnerRunState \/ RunnerSummary \/ RunnerReport

RunnerSpec == RunnerInit /\ [][RunnerNext]_vars

\* ----------------------------------------- run_indexer and reset_indexer
\* One call of run_indexer or of reset_indexer from outside the class.
OperatorCodes == {"ia", "in", "oh", "tx", "va", "wa", "zz"}

OperatorTypes == {"state", "common", "both", "all"}

OperatorCalls ==
    { [ pc |-> "call", op |-> o, state_code |-> c, indexer_type |-> t,
        ok |-> k, returned |-> FALSE, attempted |-> << >> ] :
        o \in {"run", "reset"}, c \in OperatorCodes, t \in OperatorTypes,
        k \in [IndexerKinds -> BOOLEAN] }

OperatorInit ==
    /\ runner \in OperatorCalls
    /\ AggregatorOff
    /\ builder = Off
    /\ api = Off
    /\ handlers = Off
    /\ monitor = Off
    /\ setup = Off
    /\ uploader = Off

CallRunIndexer ==
    /\ runner.pc = "call"
    /\ runner.op = "run"
    /\ LET r == run_indexer(runner.state_code, runner.indexer_type, runner.ok)
       IN  runner' = [ runner EXCEPT !.pc = "returned",
                                     !.returned = r.value,
                                     !.attempted = r.attempted ]
    /\ RunnerFrame

CallResetIndexer ==
    /\ runner.pc = "call"
    /\ runner.op = "reset"
    /\ LET r == reset_indexer(runner.state_code, runner.indexer_type,
                              runner.ok)
       IN  runner' = [ runner EXCEPT !.pc = "returned",
                                     !.returned = r.value,
                                     !.attempted = r.attempted ]
    /\ RunnerFrame

OperatorNext == CallRunIndexer \/ CallResetIndexer

OperatorSpec == OperatorInit /\ [][OperatorNext]_vars

\* -------------------------------------------------------- monitor_indexer
MaxChecks == 3

\* What one call of indexer_client.get_indexer_status gives: no last result,
\* a last result with one of the statuses of the service, or an exception.
TerminalStatuses == {"success", "transientFailure", "persistentFailure"}

PollOutcomes ==
    {"no_history", "inProgress", "raises"} \cup TerminalStatuses

MonitorStateCodes == {"ia", "zz"}

IndexerTypes == {"state", "common", "both", "all"}

\* indexers_to_monitor: the state indexer first, then the common one.
indexers_to_monitor(state_code, indexer_type) ==
    (IF indexer_type \in {"state", "both"}
     THEN << IndexerName(state_code, "state") >> ELSE << >>)
        \o (IF indexer_type \in {"common", "both"}
            THEN << IndexerName(state_code, "common") >> ELSE << >>)

MonitorCalls ==
    { [ pc |-> "start", state_code |-> c, indexer_type |-> t,
        max_checks |-> m, to_monitor |-> << >>, i |-> 0, rounds |-> << >>,
        final_reports |-> 0, final |-> "not issued", error |-> "" ] :
        c \in MonitorStateCodes, t \in IndexerTypes, m \in 0..MaxChecks }

MonitorInit ==
    /\ monitor \in MonitorCalls
    /\ AggregatorOff
    /\ builder = Off
    /\ api = Off
    /\ handlers = Off
    /\ runner = Off
    /\ setup = Off
    /\ uploader = Off

MonitorFrame ==
    UNCHANGED << aggregator, builder, api, handlers, runner, setup, uploader >>

\* The check of the state code and the list of indexers to poll.
MonitorEnter ==
    /\ monitor.pc = "start"
    /\ monitor' =
          IF ~KnownState(monitor.state_code)
          THEN [ monitor EXCEPT !.pc = "done",
                                !.error = "Invalid state code" ]
          ELSE [ monitor EXCEPT
                   !.pc = "check",
                   !.to_monitor = indexers_to_monitor(monitor.state_code,
                                                      monitor.indexer_type) ]
    /\ MonitorFrame

\* One round of the loop, given what each poll of the round gives.  The
\* round ends at the first poll that raises.
Round(out) ==
    LET n == Len(monitor.to_monitor)
        raising == { j \in 1..n : out[j] = "raises" }
        faulted == raising # {}
        upto == IF faulted
                THEN CHOOSE j \in raising : \A k \in raising : j <= k
                ELSE n
        all_completed == \A j \in 1..n : out[j] \in TerminalStatuses
    IN  [ polled |-> SubSeq(monitor.to_monitor, 1, upto),
          last |-> SubSeq(out, 1, upto),
          faulted |-> faulted,
          all_completed |-> ~faulted /\ all_completed,
          slept |-> ~faulted /\ ~all_completed
                        /\ monitor.i < monitor.max_checks - 1 ]

\* A round that also waits after the last check.
MonitorRound_SleepsAfterLast ==
    /\ monitor.pc = "check"
    /\ monitor.i < monitor.max_checks
    /\ \E out \in [1..Len(monitor.to_monitor) -> PollOutcomes] :
          LET r == [ Round(out) EXCEPT
                       !.slept = ~Round(out).faulted
                                    /\ ~Round(out).all_completed ]
          IN  monitor' =
                 [ monitor EXCEPT
                     !.rounds = Append(@, r),
                     !.i = IF r.faulted \/ r.all_completed THEN @ ELSE @ + 1,
                     !.error = IF r.faulted THEN "Failed to monitor indexer"
                               ELSE @,
                     !.pc = IF r.faulted THEN "done"
                            ELSE IF r.all_completed THEN "final"
                            ELSE @ ]
    /\ MonitorFrame

\* One iteration of `for i in range(max_checks)`.
MonitorRound ==
    /\ monitor.pc = "check"
    /\ monitor.i < monitor.max_checks
    /\ \E out \in [1..Len(monitor.to_monitor) -> PollOutcomes] :
          LET r == Round(out)
          IN  monitor' =
                 [ monitor EXCEPT
                     !.rounds = Append(@, r),
                     !.i = IF r.faulted \/ r.all_completed THEN @ ELSE @ + 1,
                     !.error = IF r.faulted THEN "Failed to monitor indexer"
                               ELSE @,
                     !.pc = IF r.faulted THEN "done"
                            ELSE IF r.all_completed THEN "final"
                            ELSE @ ]
    /\ MonitorFrame

\* range(max_checks) is exhausted.
MonitorExhausted ==
    /\ monitor.pc = "check"
    /\ monitor.i >= monitor.max_checks
    /\ monitor' = [ monitor EXCEPT !.pc = "final" ]
    /\ MonitorFrame

\* The final status report: get_indexer_status keeps its own faults.
MonitorFinal ==
    /\ monitor.pc = "final"
    /\ \E fault \in BOOLEAN :
          /\ fault => KindsOf(monitor.indexer_type) # {}
          /\ monitor' = [ monitor EXCEPT
                            !.pc = "done",
                            !.final_reports = @ + 1,
                            !.final = IF fault THEN "none" ELSE "statuses" ]
    /\ MonitorFrame

MonitorNext ==
    MonitorEnter \/ MonitorRound \/ MonitorExhausted \/ MonitorFinal

MonitorSpec == MonitorInit /\ [][MonitorNext]_vars

\* =========================================== azure_search_setup_API_5.py
MaxSetupStates == 2

SetupCodes == {"ia", "in", "oh"}

\* One entry of config['states']: complete, or lacking one of the keys the
\* setup reads.
EntryShapes == {"full", "no_name", "no_index", "no_container"}

\* self.states in the order of the file, each code once.
SetupConfigs ==
    { c \in SeqsUpTo([code : SetupCodes, shape : EntryShapes],
                     MaxSetupStates) :
        \A a, b \in 1..Len(c) : c[a].code = c[b].code => a = b }

\* What storage authentication the environment configures.
StorageEnvs ==
    [ use_managed_identity : BOOLEAN,
      connection_string : BOOLEAN,
      storage_key : BOOLEAN ]

\* A choice that prefers the connection string to the managed identity.
StorageAuth_ConnectionStringFirst(env) ==
    IF env.connection_string THEN "connection_string"
    ELSE IF env.use_managed_identity THEN "managed_identity"
    ELSE IF env.storage_key THEN "account_key"
    ELSE "none"

\* The branch create_data_source_connection takes.
StorageAuth(env) ==
    IF env.use_managed_identity THEN "managed_identity"
    ELSE IF env.connection_string THEN "connection_string"
    ELSE IF env.storage_key THEN "account_key"
    ELSE "none"

\* create_data_source_connection: ok tells whether the service accepts the
\* create-or-update call.  The record tells what was attempted.
create_data_source_connection(env, datasource_name, ok) ==
    LET auth == StorageAuth(env)
    IN  [ op |-> "datasource",
          name |-> datasource_name,
          auth |-> auth,
          sent |-> auth # "none",
          raised |-> auth = "none" \/ ~ok,
          kind |-> IF auth = "none" THEN "ValueError"
                   ELSE IF ~ok THEN "HttpResponseError" ELSE "none",
          error |-> IF auth = "none"
                    THEN "Storage authentication not configured"
                    ELSE IF ~ok THEN "service error" ELSE "" ]

create_search_index(index_name, ok) ==
    [ op |-> "index", name |-> index_name, auth |-> "client", sent |-> TRUE,
      raised |-> ~ok, kind |-> IF ok THEN "none" ELSE "HttpResponseError",
      error |-> IF ok THEN "" ELSE "service error" ]

create_indexer(indexer_name, index_name, datasource_name, ok) ==
    [ op |-> "indexer", name |-> indexer_name, auth |-> "client",
      sent |-> TRUE, raised |-> ~ok,
      kind |-> IF ok THEN "none" ELSE "HttpResponseError",
      error |-> IF ok THEN "" ELSE "service error",
      index |-> index_name, datasource |-> datasource_name ]

SetupIdle(env, config) ==
    [ pc |-> "start", env |-> env, config |-> config, pos |-> 0,
      success |-> << >>, failed |-> << >>, calls |-> << >>,
      raised |-> "" ]

SetupInit ==
    /\ \E env \in StorageEnvs, config \in SetupConfigs :
          setup = SetupIdle(env, config)
    /\ AggregatorOff
    /\ builder = Off
    /\ api = Off
    /\ handlers = Off
    /\ runner = Off
    /\ monitor = Off
    /\ uploader = Off

SetupFrame ==
    UNCHANGED << aggregator, builder, api, handlers, runner, monitor,
                 uploader >>

\* A setup that gives up when the common data source cannot be created.
SetupCommon_StopsOnFailure ==
    /\ setup.pc = "start"
    /\ \E ok \in BOOLEAN :
          LET c == create_data_source_connection(setup.env,
                                                 "datasource-common", ok)
          IN  setup' = [ setup EXCEPT
                           !.pc = IF c.raised THEN "returned" ELSE "states",
                           !.calls = Append(@, c),
                           !.failed =
                               IF c.raised
                               THEN Append(@, [ resource |-> "common_datasource",
                                                error |-> c.error ])
                               ELSE @ ]
    /\ SetupFrame

\* The common data source, created once before the loop.
SetupCommon ==
    /\ setup.pc = "start"
    /\ \E ok \in BOOLEAN :
          LET c == create_data_source_connection(setup.env,
                                                 "datasource-common", ok)
          IN  setup' = [ setup EXCEPT
                           !.pc = "states",
                           !.calls = Append(@, c),
                           !.failed =
                               IF c.raised
                               THEN Append(@, [ resource |-> "common_datasource",
                                                error |-> c.error ])
                               ELSE @ ]
    /\ SetupFrame

\* A loop body that goes on to the next resource after a failure.
StateSetup_GoesOn(entry, env, ok) ==
    LET code == entry.code
        index == create_search_index(IndexName(code), ok[1])
        datasource == create_data_source_connection(
                          env, "datasource-" \o code, ok[2])
        state_indexer == create_indexer("indexer-" \o code, IndexName(code),
                                        "datasource-" \o code, ok[3])
        common_indexer == create_indexer("indexer-" \o code \o "-common",
                                         IndexName(code),
                                         "datasource-common", ok[4])
        all == << index, datasource, state_indexer, common_indexer >>
    IN  IF entry.shape = "no_name"
        THEN [ calls |-> << >>, end |-> "escaped", error |-> "'name'" ]
        ELSE IF \E k \in 1..Len(all) : all[k].raised
        THEN [ calls |-> all, end |-> "failed", error |-> "service error" ]
        ELSE [ calls |-> all, end |-> "success", error |-> "" ]

\* The body of the loop for one entry: the calls it makes, and how it ends.
\* "escaped" is an exception that leaves the handler of the loop.
StateSetup(entry, env, ok) ==
    LET code == entry.code
        index == create_search_index(IndexName(code), ok[1])
        datasource == create_data_source_connection(
                          env, "datasource-" \o code, ok[2])
        state_indexer == create_indexer("indexer-" \o code, IndexName(code),
                                        "datasource-" \o code, ok[3])
        common_indexer == create_indexer("indexer-" \o code \o "-common",
                                         IndexName(code),
                                         "datasource-common", ok[4])
        Failed(calls, error) ==
            [ calls |-> calls, end |-> "failed", error |-> error ]
    IN  IF entry.shape = "no_name"
        THEN [ calls |-> << >>, end |-> "escaped", error |-> "'name'" ]
        ELSE IF entry.shape = "no_index"
        THEN Failed(<< >>, "'index'")
        ELSE IF index.raised
        THEN Failed(<< index >>, index.error)
        ELSE IF entry.shape = "no_container"
        THEN Failed(<< index >>, "'container'")
        ELSE IF datasource.raised
        THEN Failed(<< index, datasource >>, datasource.error)
        ELSE IF state_indexer.raised
        THEN Failed(<< index, datasource, state_indexer >>,
                    state_indexer.error)
        ELSE IF common_indexer.raised
        THEN Failed(<< index, datasource, state_indexer, common_indexer >>,
                    common_indexer.error)
        ELSE [ calls |-> << index, datasource, state_indexer,
                            common_indexer >>,
               end |-> "success", error |-> "" ]

SuccessEntry(code) ==
    [ state |-> code, name |-> StateName(code), index |-> IndexName(code),
      datasources |-> << "datasource-" \o code, "datasource-common" >>,
      indexers |-> << "indexer-" \o code, "indexer-" \o code \o "-common" >> ]

FailedEntry(code, error) ==
    [ state |-> code, name |-> StateName(code), error |-> error ]

\* One iteration of the loop over self.states.items().
SetupState ==
    /\ setup.pc = "states"
    /\ setup.pos < Len(setup.config)
    /\ \E ok \in [1..4 -> BOOLEAN] :
          LET entry == setup.config[setup.pos + 1]
              done == StateSetup(entry, setup.env, ok)
          IN  setup' =
                 [ setup EXCEPT
                     !.pos = @ + 1,
                     !.calls = @ \o done.calls,
                     !.success = IF done.end = "success"
                                 THEN Append(@, SuccessEntry(entry.code))
                                 ELSE @,
                     !.failed = IF done.end = "failed"
                                THEN Append(@, FailedEntry(entry.code,
                                                           done.error))
                                ELSE @,
                     !.pc = IF done.end = "escaped" THEN "raised" ELSE @,
                     !.raised = IF done.end = "escaped" THEN done.error
                                ELSE @ ]
    /\ SetupFrame

\* The loop is over: the results are returned.
SetupReturn ==
    /\ setup.pc = "states"
    /\ setup.pos = Len(setup.config)
    /\ setup' = [ setup EXCEPT !.pc = "returned" ]
    /\ SetupFrame

SetupNext == SetupCommon \/ SetupState \/ SetupReturn

SetupSpec == SetupInit /\ [][SetupNext]_vars

\* ========================================================= test_upload.py
MaxBlobs == 3
MaxNumDocs == 6

\* self.containers with the default names.
ContainerNames ==
    << "state1-container", "state2-container", "state3-container",
       "state4-container", "state5-container", "state6-container" >>

RECURSIVE SumOf(_)
SumOf(seq) == IF seq = << >> THEN 0 ELSE Head(seq) + SumOf(Tail(seq))

\* How many blobs each container holds: at most MaxBlobs in the account.
BlobContents ==
    { c \in [1..Len(ContainerNames) -> 0..MaxBlobs] : SumOf(c) <= MaxBlobs }

\* str.lower on the characters an answer is made of.
LowerChar(c) ==
    CASE c = "Y" -> "y"
      [] c = "E" -> "e"
      [] c = "S" -> "s"
      [] c = "N" -> "n"
      [] c = "O" -> "o"
      [] OTHER -> c

Lower(str) == [ k \in 1..Len(str) |-> LowerChar(str[k]) ]

\* What the operator may type at the prompt, character by character.
Answers ==
    { <<"y", "e", "s">>, <<"Y", "E", "S">>, <<"Y", "e", "s">>,
      <<"n", "o">>, <<"N", "O">>, <<"y">>, << >>,
      <<"y", "e", "s", " ">>, <<"y", "e", "s", "s">> }

UploaderIdle ==
    [ pc |-> "start", op |-> "none", answer |-> << >>,
      initial |-> << >>, contents |-> << >>, idx |-> 0,
      clean_calls |-> << >>, counts |-> << >>, total_deleted |-> 0,
      num_docs |-> 0, docs |-> << >>, printed |-> << >> ]

\* One call of clean_all_containers, or of create_test_pdfs_for_state.
UploaderCalls ==
    { [ UploaderIdle EXCEPT !.op = "clean", !.answer = a,
                            !.initial = c, !.contents = c ] :
        a \in Answers, c \in BlobContents }
    \cup
    { [ UploaderIdle EXCEPT !.op = "create", !.num_docs = n ] :
        n \in 0..MaxNumDocs }

UploadInit ==
    /\ uploader \in UploaderCalls
    /\ AggregatorOff
    /\ builder = Off
    /\ api = Off
    /\ handlers = Off
    /\ runner = Off
    /\ monitor = Off
    /\ setup = Off

UploadFrame ==
    UNCHANGED << aggregator, builder, api, handlers, runner, monitor, setup >>

\* A prompt that cancels only on the answer no.
CleanConfirm_CancelsOnlyOnNo ==
    /\ uploader.pc = "start"
    /\ uploader.op = "clean"
    /\ uploader' =
          IF Lower(uploader.answer) = <<"n", "o">>
          THEN [ uploader EXCEPT !.pc = "done",
                                 !.printed = Append(@, "Cancelled.") ]
          ELSE [ uploader EXCEPT !.pc = "clean" ]
    /\ UploadFrame

\* The prompt of clean_all_containers and the comparison of the answer.
CleanConfirm ==
    /\ uploader.pc = "start"
    /\ uploader.op = "clean"
    /\ uploader' =
          IF Lower(uploader.answer) # <<"y", "e", "s">>
          THEN [ uploader EXCEPT !.pc = "done",
                                 !.printed = Append(@, "Cancelled.") ]
          ELSE [ uploader EXCEPT !.pc = "clean" ]
    /\ UploadFrame

\* clean_container on a container of n blobs.  The listing may raise; the
\* delete of blob number fail_at may raise (0: none does).  It gives the
\* number it returns and the number of blobs it has deleted.
clean_container(n, list_fails, fail_at) ==
    IF list_fails THEN [ count |-> 0, deleted |-> 0 ]
    ELSE IF fail_at > 0 THEN [ count |-> 0, deleted |-> fail_at - 1 ]
    ELSE [ count |-> n, deleted |-> n ]

\* One iteration of the loop of clean_all_containers.
CleanContainer ==
    /\ uploader.pc = "clean"
    /\ uploader.idx < Len(ContainerNames)
    /\ LET k == uploader.idx + 1
           n == uploader.contents[k]
       IN  \E list_fails \in BOOLEAN, fail_at \in 0..n :
              LET c == clean_container(n, list_fails, fail_at)
              IN  uploader' =
                     [ uploader EXCEPT
                         !.idx = k,
                         !.clean_calls = Append(@, ContainerNames[k]),
                         !.contents[k] = @ - c.deleted,
                         !.counts = Append(@, c.count),
                         !.total_deleted = @ + c.count ]
    /\ UploadFrame

\* The total printed after the loop.
CleanReport ==
    /\ uploader.pc = "clean"
    /\ uploader.idx = Len(ContainerNames)
    /\ uploader' = [ uploader EXCEPT
                       !.pc = "done",
                       !.printed = Append(@, "TOTAL BLOBS DELETED") ]
    /\ UploadFrame

\* create_dummy_pdf: one showPage for each page_num of range(1, num_pages+1).
create_dummy_pdf(num_pages) == Cardinality(1..num_pages)

\* ensure_container_exists at the start of create_test_pdfs_for_state.
CreateEnsure ==
    /\ uploader.pc = "start"
    /\ uploader.op = "create"
    /\ \E ok \in BOOLEAN :
          uploader' =
              IF ok THEN [ uploader EXCEPT !.pc = "create" ]
              ELSE [ uploader EXCEPT
                       !.pc = "done",
                       !.printed = Append(@, "Error with container") ]
    /\ UploadFrame

\* A page count that takes the document number modulo 4.
CreateDocument_ModuloFour(doc_num, uploaded) ==
    LET num_pages == 3 + (doc_num % 4)
    IN  [ doc_num |-> doc_num,
          num_pages |-> num_pages,
          pages |-> create_dummy_pdf(num_pages),
          uploaded |-> uploaded ]

\* One document of create_test_pdfs_for_state.
CreateDocument(doc_num, uploaded) ==
    LET num_pages == 3 + (doc_num % 3)
    IN  [ doc_num |-> doc_num,
          num_pages |-> num_pages,
          pages |-> create_dummy_pdf(num_pages),
          uploaded |-> uploaded ]

\* One iteration of `for doc_num in range(1, num_docs + 1)`.
CreateDoc ==
    /\ uploader.pc = "create"
    /\ Len(uploader.docs) < uploader.num_docs
    /\ \E uploaded \in BOOLEAN :
          uploader' =
              [ uploader EXCEPT
                  !.docs = Append(@, CreateDocument(Len(uploader.docs) + 1,
                                                    uploaded)) ]
    /\ UploadFrame

CreateReturn ==
    /\ uploader.pc = "create"
    /\ Len(uploader.docs) = uploader.num_docs
    /\ uploader' = [ uploader EXCEPT !.pc = "done" ]
    /\ UploadFrame

UploadNext ==
    \/ CleanConfirm \/ CleanContainer \/ CleanReport
    \/ CreateEnsure \/ CreateDoc \/ CreateReturn

UploadSpec == UploadInit /\ [][UploadNext]_vars

\* ============================================================== properties
Done == pc = "done"
Returned == pc = "done" /\ result.returned

\* The caller's cap as the request gives it, or the configured default.
ResultCap ==
    IF request.top.some /\ request.top.val > 0 THEN request.top.val
    ELSE top_k

\* The documents the successful legs returned, in the order they were
\* appended to the accumulator: leg by leg, each in its result order.
RECURSIVE AppendedUpTo(_)
AppendedUpTo(n) ==
    IF n = 0 THEN << >>
    ELSE AppendedUpTo(n - 1) \o search_calls[n].results
Appended == AppendedUpTo(Len(search_calls))

IsFailure(summary) == "error" \in DOMAIN summary
IsSuccess(summary) == "results_count" \in DOMAIN summary

Occurrences(seq, d) == Cardinality({k \in 1..Len(seq) : seq[k] = d})
Elements(seq) == {seq[k] : k \in 1..Len(seq)}

\* C1: for a non-empty requested target list the returned state_summaries
\* has one entry per requested target, in request order: same length, and the
\* i-th entry's 'state' is the i-th requested target, whichever legs failed.
C1_OneSummaryPerTarget ==
    (Done /\ TruthySeq(request.state_codes)) =>
        /\ result.returned
        /\ Len(result.state_summaries) = Len(request.state_codes.val)
        /\ \A i \in 1..Len(request.state_codes.val) :
               /\ result.state_summaries[i].state = request.state_codes.val[i]
               /\ IsFailure(result.state_summaries[i])
                      # IsSuccess(result.state_summaries[i])

\* A two-target call has returned with one failed and one successful leg.
C1_Witness ==
    /\ Returned
    /\ TruthySeq(request.state_codes)
    /\ Len(request.state_codes.val) = 2
    /\ IsFailure(result.state_summaries[1])
    /\ IsSuccess(result.state_summaries[2])

\* C2: failure isolation.  Whatever legs fail, nothing is raised to the
\* caller, every target after a failed one is still searched, every document
\* a successful leg returned is in the collected results, and every failed
\* target's summary carries a non-empty error description.
C2_FailureIsolation ==
    /\ ~result.raised
    /\ Done =>
        /\ result.returned
        /\ Len(search_calls) = Len(state_codes)
        /\ \A k \in 1..Len(search_calls) :
               /\ search_calls[k].state_code = state_codes[k]
               /\ search_calls[k].raised =>
                      /\ IsFailure(result.state_summaries[k])
                      /\ result.state_summaries[k].error # ""
               /\ \A d \in Elements(search_calls[k].results) :
                      Occurrences(result.all_results, d) >= 1

\* The first target failed, the second was searched and its documents are in
\* the returned results.
C2_Witness ==
    /\ Returned
    /\ Len(search_calls) = 2
    /\ search_calls[1].raised
    /\ ~search_calls[2].raised
    /\ Len(search_calls[2].results) > 0
    /\ Len(result.top_results) > 0

\* The position a stable sort by descending score gives the k-th appended
\* document: behind every document of higher score and every earlier
\* document of the same score.
StableRank(a, k) ==
    1 + Cardinality({ m \in 1..Len(a) :
                        \/ a[m].score > a[k].score
                        \/ a[m].score = a[k].score /\ m < k })

\* C3: the merged result is in non-increasing score order and the order is
\* stable: documents of equal score keep the order in which they were
\* appended (earlier target first, then the target's own result order).
C3_SortedStable ==
    Returned =>
        /\ Len(result.all_results) = Len(Appended)
        /\ \A i \in 1..Len(result.all_results) :
               \A j \in i..Len(result.all_results) :
                   result.all_results[i].score >= result.all_results[j].score
        /\ \A k \in 1..Len(Appended) :
               result.all_results[StableRank(Appended, k)] = Appended[k]
        /\ \A i \in 1..Len(result.top_results) :
               result.top_results[i] = result.all_results[i]

\* The scenario of the specification: targets [ia, in], ia returns scores
\* [0.9, 0.5], in returns [0.9]; the merge is [ia#1, in#1, ia#2].
C3_Witness ==
    /\ Returned
    /\ state_codes = <<"ia", "in">>
    /\ Appended = << ResultData("ia", 1, 9), ResultData("ia", 2, 5),
                     ResultData("in", 1, 9) >>
    /\ result.all_results = << ResultData("ia", 1, 9), ResultData("in", 1, 9),
                               ResultData("ia", 2, 5) >>

\* C4: top_results never holds more documents than the result cap, and
\* holds exactly the cap when at least that many documents were collected.
C4_CapRespected ==
    Returned =>
        /\ Len(result.top_results) <= ResultCap
        /\ Len(Appended) >= ResultCap =>
               Len(result.top_results) = ResultCap

\* More documents were collected than the cap admits.
C4_Witness ==
    /\ Returned
    /\ Len(Appended) > ResultCap
    /\ Len(result.top_results) = ResultCap

RECURSIVE SumResultsCount(_)
SumResultsCount(summaries) ==
    IF Len(summaries) = 0 THEN 0
    ELSE (IF IsSuccess(Head(summaries)) THEN Head(summaries).results_count
          ELSE 0) + SumResultsCount(Tail(summaries))

\* C5: total_results is the number of documents collected before the
\* truncation, which is the sum of results_count over the successful
\* summaries; a failed target adds nothing.
C5_TotalBeforeTruncation ==
    Returned =>
        /\ result.total_results = Len(Appended)
        /\ result.total_results = SumResultsCount(result.state_summaries)
        /\ \A k \in 1..Len(search_calls) :
               IsSuccess(result.state_summaries[k]) =>
                   result.state_summaries[k].results_count
                       = Len(search_calls[k].results)

\* Three documents collected with cap 2: two merged documents, total 3.
C5_Witness ==
    /\ Returned
    /\ ResultCap = 2
    /\ Len(Appended) = 3
    /\ Len(result.top_results) = 2
    /\ result.total_results = 3

\* The effective target list is empty: the caller gave none and no state is
\* configured.
NoTargets == ~TruthySeq(request.state_codes) /\ Len(states) = 0

SearchedCodes == [k \in 1..Len(search_calls) |-> search_calls[k].state_code]

\* C7: an empty or absent target list is replaced by the keys of the
\* configured states, in configuration order, and that list is searched and
\* reported as states_searched; a non-empty list is used as given.
C7_DefaultTargets ==
    Returned =>
        LET expected == IF request.state_codes.some
                           /\ request.state_codes.val # << >>
                        THEN request.state_codes.val
                        ELSE states
        IN  /\ state_codes = expected
            /\ result.states_searched = expected
            /\ SearchedCodes = expected

\* An empty list was given and both configured states were searched.
C7_Witness ==
    /\ Returned
    /\ request.state_codes = Some(<< >>)
    /\ states = <<"in", "ia">>
    /\ SearchedCodes = <<"in", "ia">>

Configured(state_code) == state_code \in Elements(states)

\* C8: a target outside the configured states gets a failure summary (an
\* error description, no result counts), no request for it reaches the
\* search service, and nothing is raised to the caller; when it is the only
\* target the merged documents are empty and the total is 0.
C8_UnknownTarget ==
    /\ ~result.raised
    /\ Len(state_summaries) = Len(search_calls)
    /\ \A k \in 1..Len(search_calls) :
           ~Configured(search_calls[k].state_code) =>
               /\ search_calls[k].raised
               /\ DOMAIN state_summaries[k] = {"state", "error"}
               /\ state_summaries[k].state = search_calls[k].state_code
               /\ state_summaries[k].error # ""
    /\ Len(backend_calls) =
           Cardinality({ k \in 1..Len(search_calls) :
                           Configured(search_calls[k].state_code) })
    /\ \A b \in Elements(backend_calls) :
           \E c \in Elements(states) : b.index_name = IndexName(c)
    /\ (Done /\ Len(state_codes) = 1 /\ ~Configured(state_codes[1])) =>
           /\ result.returned
           /\ Len(result.state_summaries) = 1
           /\ IsFailure(result.state_summaries[1])
           /\ result.top_results = << >>
           /\ result.all_results = << >>
           /\ result.total_results = 0

\* The only target "zz" is unknown to a non-empty configuration.
C8_Witness ==
    /\ Returned
    /\ state_codes = <<"zz">>
    /\ Len(states) > 0
    /\ IsFailure(result.state_summaries[1])

\* C9: the sort only reorders.  The sorted list holds each appended document
\* as often as it was appended and nothing else, and top_results is a prefix
\* of the sorted list.
C9_MergeIsPermutation ==
    Returned =>
        /\ Len(result.all_results) = Len(Appended)
        /\ \A d \in Elements(Appended) \cup Elements(result.all_results) :
               Occurrences(result.all_results, d) = Occurrences(Appended, d)
        /\ Len(result.top_results) <= Len(result.all_results)
        /\ result.top_results
               = SubSeq(result.all_results, 1, Len(result.top_results))

\* The sort changed the order and the truncation cut the list.
C9_Witness ==
    /\ Returned
    /\ result.all_results # Appended
    /\ Len(result.top_results) < Len(result.all_results)

\* C10: search is called once per target, in request order, one call after
\* the other, always with the query, the cap and the filter of the request;
\* when a call is made every earlier target has its summary.
C10_OneSearchPerTargetInOrder ==
    /\ pc = "loop" => Len(search_calls) = idx - 1
    /\ Done => Len(search_calls) = Len(state_codes)
    /\ Len(search_calls) <= Len(state_codes)
    /\ Len(state_summaries) = Len(search_calls)
    /\ \A k \in 1..Len(search_calls) :
           /\ search_calls[k].state_code = state_codes[k]
           /\ search_calls[k].query = request.query
           /\ search_calls[k].top = request.top
           /\ search_calls[k].filters = request.filters
           /\ state_summaries[k].state = state_codes[k]
    /\ \A b \in Elements(backend_calls) :
           /\ b.search_text = request.query
           /\ b.top = ResultCap
           /\ \A c \in Elements(backend_calls) : c.filter = b.filter

\* Two targets were searched with a cap and a filter, the first one failing.
C10_Witness ==
    /\ Done
    /\ Len(search_calls) = 2
    /\ search_calls[1].raised
    /\ ~search_calls[2].raised
    /\ request.top = Some(1)
    /\ TruthySeq(request.filters)
    /\ top_k = 2

\* --------------------------------------------------------------- C11, C14, C18
EmptyOrAbsent(filters) == ~filters.some \/ filters.val = << >>

\* C11: with an empty or absent filter mapping every request search sends to
\* the service has filter None (no filter string at all, not an empty one);
\* with a non-empty mapping a filter string is sent.
C11_EmptyFilterSendsNone ==
    \A b \in Elements(backend_calls) :
        /\ EmptyOrAbsent(request.filters) => b.filter = None
        /\ ~EmptyOrAbsent(request.filters) => b.filter.some

\* A request was sent for a call whose filter mapping is the empty dict.
C11_Witness ==
    /\ request.filters = Some(<< >>)
    /\ Len(backend_calls) > 0
    /\ backend_calls[1].filter = None

\* C14: no step of a call changes the configured states or the default cap,
\* the caller's arguments stay as given while the call runs, and when the call
\* is over nothing of it is left: the object is as it was constructed.
C14_NoStateKept ==
    [][ /\ states' = states
        /\ top_k' = top_k
        /\ (pc = "loop" => request' = request)
        /\ (pc' = "idle" =>
               /\ request' = NoRequest
               /\ state_codes' = << >>
               /\ all_results' = << >>
               /\ state_summaries' = << >>
               /\ result' = NoResult) ]_vars

\* A call with its own cap has returned with a failed and a successful leg.
C14_Witness ==
    /\ Returned
    /\ request.top = Some(1)
    /\ top_k = 2
    /\ \E k \in 1..Len(search_calls) : search_calls[k].raised
    /\ \E k \in 1..Len(search_calls) : ~search_calls[k].raised

Min(a, b) == IF a < b THEN a ELSE b

\* Every request sent carries cap c and the merged list is cut at c.
CapsAre(c) ==
    /\ \A b \in Elements(backend_calls) : b.top = c
    /\ Returned =>
           Len(result.top_results) = Min(c, Len(result.all_results))

\* C18: without a cap in the request the per-target searches and the final
\* truncation both use the configured top_k; with a positive cap both use
\* that cap.
C18_SameCapBothPlaces ==
    /\ (pc # "idle" /\ request.top = None) => CapsAre(top_k)
    /\ (request.top.some /\ request.top.val > 0) => CapsAre(request.top.val)

\* A call without a cap collected more than top_k documents; a request went
\* out with top_k.
C18_Witness ==
    /\ Returned
    /\ request.top = None
    /\ Len(backend_calls) > 0
    /\ backend_calls[1].top = top_k
    /\ Len(result.all_results) > top_k

\* ------------------------------------------------------------------ C12, C13
BuilderDone == builder.pc = "done"

BoundNames == {"gte", "lte", "gt", "lt"}

\* The clauses an entry is to give: one for a scalar, one per bound present.
ClausesDue(entry) ==
    IF "range" \in DOMAIN entry
    THEN Cardinality(DOMAIN entry.range \cap BoundNames)
    ELSE 1

RECURSIVE TotalClausesDue(_)
TotalClausesDue(filters) ==
    IF Len(filters) = 0 THEN 0
    ELSE ClausesDue(Head(filters)) + TotalClausesDue(Tail(filters))

\* How often sub occurs in str.
CountSub(str, sub) ==
    Cardinality({ i \in 1..(Len(str) - Len(sub) + 1) :
                    SubSeq(str, i, i + Len(sub) - 1) = sub })

\* The clauses wanted, as (entry, operator) pairs: operator 0 is the
\* equality of a scalar, 1..4 are ge, le, gt, lt.
ClauseKeys(filters) ==
    { p \in (1..Len(filters)) \X (0..4) :
        IF "range" \in DOMAIN filters[p[1]]
        THEN p[2] >= 1 /\ RangeOps[p[2]][1] \in DOMAIN filters[p[1]].range
        ELSE p[2] = 0 }

\* The place of a clause when entries keep the mapping's order and the
\* bounds of one entry the order gte, lte, gt, lt.
KeyPos(filters, p) ==
    1 + Cardinality({ q \in ClauseKeys(filters) :
                        \/ q[1] < p[1]
                        \/ q[1] = p[1] /\ q[2] < p[2] })

OpText(r) == IF r = 0 THEN " eq " ELSE RangeOps[r][2]

\* The clause starts with the field and the operator of key p.
ClauseIsFor(clause, filters, p) ==
    LET head == filters[p[1]].field \o OpText(p[2])
    IN  /\ Len(clause) >= Len(head)
        /\ SubSeq(clause, 1, Len(head)) = head

\* The clause is field eq 'value' with the value copied as it is.
IsQuotedEquality(clause, entry) ==
    LET head == entry.field \o " eq '"
    IN  /\ Len(clause) = Len(head) + Len(entry.scalar) + 1
        /\ SubSeq(clause, 1, Len(head)) = head
        /\ SubSeq(clause, Len(head) + 1, Len(clause) - 1) = entry.scalar
        /\ SubSeq(clause, Len(clause), Len(clause)) = "'"

\* One clause per bound present and one quoted equality per scalar.
ClauseCountsRight ==
    /\ Len(builder.filter_parts) = TotalClausesDue(builder.filters)
    /\ \A p \in ClauseKeys(builder.filters) :
           p[2] = 0 =>
               IsQuotedEquality(
                   builder.filter_parts[KeyPos(builder.filters, p)],
                   builder.filters[p[1]])

\* C12 as stated: one clause per bound present, one quoted equality per
\* scalar, and count - 1 separators ' and ' in the result.
C12_SeparatorsCountMinusOne ==
    BuilderDone =>
        /\ ClauseCountsRight
        /\ CountSub(builder.out, " and ")
               = TotalClausesDue(builder.filters) - 1

\* C12, amended: one clause per bound present, one quoted equality per
\* scalar; the clauses are joined by ' and ', count - 1 separators when there
\* is a clause, and the empty string without separator when there is none.
C12_ClausesAndSeparators ==
    BuilderDone =>
        /\ ClauseCountsRight
        /\ TotalClausesDue(builder.filters) >= 1 =>
               CountSub(builder.out, " and ")
                   = TotalClausesDue(builder.filters) - 1
        /\ TotalClausesDue(builder.filters) = 0 => builder.out = ""

\* A range with gte and lte next to a scalar with a quote in it: three
\* clauses, two separators.
C12_Witness ==
    /\ BuilderDone
    /\ Len(builder.filters) = 2
    /\ "range" \in DOMAIN builder.filters[1]
    /\ DOMAIN builder.filters[1].range = {"gte", "lte"}
    /\ "scalar" \in DOMAIN builder.filters[2]
    /\ builder.filters[2].scalar = "o'hare"
    /\ Len(builder.filter_parts) = 3
    /\ CountSub(builder.out, " and ") = 2

\* C13: the clauses come in the mapping's iteration order and, within one
\* range value, in the order gte, lte, gt, lt; the string is a function of
\* the mapping alone: the loop's result is the one the builder gives search.
C13_OrderPreserving ==
    BuilderDone =>
        /\ Len(builder.filter_parts)
               = Cardinality(ClauseKeys(builder.filters))
        /\ \A p \in ClauseKeys(builder.filters) :
               ClauseIsFor(builder.filter_parts[KeyPos(builder.filters, p)],
                           builder.filters, p)
        /\ builder.out = Join(builder.filter_parts, " and ")
        /\ builder.out = build_filter_string(builder.filters)

\* Two entries, the first a range with all four bounds.
C13_Witness ==
    /\ BuilderDone
    /\ Len(builder.filters) = 2
    /\ "range" \in DOMAIN builder.filters[1]
    /\ DOMAIN builder.filters[1].range = BoundNames
    /\ Len(builder.filter_parts) >= 5

\* ------------------------------------------------------------------ C15, C16
Responded == api.pc = "responded"

\* C15: on POST /api/search a validation failure (no JSON, query or state
\* missing, unknown state code) is answered 400, every fault of the service
\* or of the configuration is answered 500 with the fault's message, and no
\* such fault is answered 400.
C15_SearchApiStatusClasses ==
    (Responded /\ api.endpoint = "search") =>
        /\ api.origin \in {"request", "state_code"} => api.status = 400
        /\ api.origin \in {"backend", "config"} =>
               api.status = 500 /\ api.message # ""

\* C16: on POST /api/search/multi-state a malformed request (no JSON, query
\* missing or empty) is answered 400 with nothing constructed and nothing
\* searched; a well-formed request whose targets fail is answered 200 with
\* one outcome per target; 500 is answered only for a fault that left the
\* aggregator (its construction or its call).
C16_MultiApiStatusClasses ==
    api.endpoint = "multi" =>
        /\ (\/ api.body.shape = "not_json"
            \/ api.body.shape = "object" /\ ~TruthyStr(api.body.query)) =>
               /\ Responded /\ api.status = 400
               /\ ~api.constructed
               /\ search_calls = << >> /\ pc = "idle"
        /\ (Responded /\ api.origin = "none") =>
               /\ api.status = 200
               /\ result.returned
               /\ Len(result.state_summaries) = Len(state_codes)
        /\ (Responded /\ api.status = 500) =>
               api.origin \in {"config", "aggregator"}

\* ----------------------------------------------------------------------- C17
RECURSIVE ResultsOf(_)
ResultsOf(calls) ==
    IF Len(calls) = 0 THEN << >>
    ELSE ResultsOf(SubSeq(calls, 1, Len(calls) - 1))
             \o calls[Len(calls)].results

\* What a call returns when it runs alone, from its request, the object it
\* was made on and the outcome the service gave each of its searches.
AloneResult(l) ==
    LET codes == IF l.request.state_codes.some
                    /\ l.request.state_codes.val # << >>
                 THEN l.request.state_codes.val
                 ELSE l.states
        cap == IF l.request.top.some /\ l.request.top.val # 0
               THEN l.request.top.val ELSE l.top_k
        appended == ResultsOf(l.search_calls)
        sorted == [ i \in 1..Len(appended) |->
                      appended[CHOOSE k \in 1..Len(appended) :
                                   StableRank(appended, k) = i] ]
        summaries ==
            [ k \in 1..Len(codes) |->
                IF l.search_calls[k].raised
                THEN [ state |-> codes[k],
                       error |-> l.search_calls[k].error ]
                ELSE [ state |-> codes[k],
                       state_name |-> StateName(codes[k]),
                       results_count |-> Len(l.search_calls[k].results),
                       total_count |-> l.search_calls[k].total_count ] ]
    IN  [ returned |-> TRUE,
          raised |-> FALSE,
          query |-> l.request.query,
          states_searched |-> codes,
          state_summaries |-> summaries,
          total_results |-> Len(appended),
          top_results |-> SubSeq(sorted, 1, Min(cap, Len(sorted))),
          all_results |-> sorted ]

\* A finished call has searched its own targets and returned what it
\* returns alone.
AsAlone(l) ==
    l.pc = "done" =>
        /\ Len(l.search_calls) = Len(l.state_codes)
        /\ \A k \in 1..Len(l.search_calls) :
               /\ l.search_calls[k].state_code = l.state_codes[k]
               /\ l.search_calls[k].query = l.request.query
               /\ l.search_calls[k].top = l.request.top
        /\ l.result = AloneResult(l)

\* C17: two requests in flight do not interfere.  However their steps
\* interleave, each returns the result it returns when run alone against the
\* same outcomes of the service, and the object each built is untouched.
C17_NoInterference ==
    /\ AsAlone(Locals)
    /\ AsAlone(handlers.saved)
    /\ states = <<"in", "ia">> /\ handlers.saved.states = <<"in", "ia">>
    /\ top_k = MaxTop /\ handlers.saved.top_k = MaxTop

\* Both requests are done, one was interrupted in its loop, and both
\* collected documents.
C17_Witness ==
    /\ pc = "done"
    /\ handlers.saved.pc = "done"
    /\ handlers.preempted
    /\ request # handlers.saved.request
    /\ Len(result.top_results) > 0
    /\ Len(handlers.saved.result.top_results) > 0

\* ----------------------------------------------------------------------- C19
AllIndexers ==
    { IndexerName(RunnerStateCodes[k], kind) :
        k \in 1..Len(RunnerStateCodes), kind \in IndexerKinds }

SuccessPrinted ==
    \E k \in 1..Len(runner.printed) :
        runner.printed[k] = "All indexers have been started successfully!"

\* C19: main prints that all indexers have been started successfully only
\* when every indexer of every state was started without error.
C19_SuccessOnlyWhenAllStarted ==
    SuccessPrinted =>
        /\ runner.started = AllIndexers
        /\ runner.failed = {}
        /\ \A k \in 1..Len(runner.results) : runner.results[k]

\* ----------------------------------------------------------------------- C20
MonitorDone == monitor.pc = "done"

RoundCompleted(r) ==
    /\ ~r.faulted
    /\ \A j \in 1..Len(r.last) : r.last[j] \in TerminalStatuses

PollFaulted == \E k \in 1..Len(monitor.rounds) : monitor.rounds[k].faulted

\* Never more than max_checks rounds.
RoundsBounded == Len(monitor.rounds) <= monitor.max_checks

\* The statement as the specification has it: at most max_checks rounds, and
\* every call for a known state that ends has issued the final report
\* exactly once.
C20_FinalReportAlways ==
    /\ RoundsBounded
    /\ (MonitorDone /\ KnownState(monitor.state_code))
           => monitor.final_reports = 1

\* Every round polls each monitored indexer once, in order; a round in which
\* a poll raises stops at that poll and is the last.
PollsOncePerRound ==
    \A k \in 1..Len(monitor.rounds) :
        LET r == monitor.rounds[k]
        IN  IF r.faulted
            THEN /\ k = Len(monitor.rounds)
                 /\ r.polled = SubSeq(monitor.to_monitor, 1, Len(r.polled))
                 /\ r.last[Len(r.last)] = "raises"
                 /\ MonitorDone
            ELSE r.polled = monitor.to_monitor
                     /\ Len(r.last) = Len(r.polled)

\* A round in which every monitored indexer has a terminal last result is
\* the last one; when the loop is over without fault and before max_checks,
\* the last round was such a round.
StopsExactlyWhenCompleted ==
    /\ \A k \in 1..Len(monitor.rounds) :
          RoundCompleted(monitor.rounds[k]) =>
              k = Len(monitor.rounds) /\ monitor.pc \in {"final", "done"}
    /\ ( /\ monitor.pc \in {"final", "done"}
         /\ KnownState(monitor.state_code)
         /\ ~PollFaulted
         /\ Len(monitor.rounds) < monitor.max_checks )
           => /\ Len(monitor.rounds) > 0
              /\ RoundCompleted(monitor.rounds[Len(monitor.rounds)])

\* A wait is followed by another round; a round that neither completes nor
\* faults nor is the last is followed by a wait.
SleepsOnlyBetweenRounds ==
    \A k \in 1..Len(monitor.rounds) :
        LET r == monitor.rounds[k]
        IN  /\ r.slept =>
                  \/ k < Len(monitor.rounds)
                  \/ monitor.pc = "check" /\ k < monitor.max_checks
            /\ ( ~r.faulted /\ ~RoundCompleted(r) /\ k < monitor.max_checks )
                   => r.slept

\* The final report is issued once the loop is over, exactly once, and not
\* at all when the state code is unknown or a poll has raised.
FinalReportOnce ==
    /\ monitor.final_reports <= 1
    /\ ~MonitorDone => monitor.final_reports = 0
    /\ MonitorDone =>
          monitor.final_reports =
              IF KnownState(monitor.state_code) /\ ~PollFaulted
              THEN 1 ELSE 0
    /\ ~KnownState(monitor.state_code) => monitor.rounds = << >>

\* What is left to do; it decreases in every step, so every call ends.
MonitorMeasure ==
    CASE monitor.pc = "start" -> monitor.max_checks + 3
      [] monitor.pc = "check" -> (monitor.max_checks - monitor.i) + 2
      [] monitor.pc = "final" -> 1
      [] OTHER -> 0

\* C20: monitor_indexer ends after at most max_checks rounds; each round
\* polls each monitored indexer once; it stops early exactly when a round
\* finds every monitored indexer with a terminal last result; it waits only
\* between rounds; and it issues the final report exactly once, unless the
\* state code is unknown or a poll raised, when it returns without one.
C20_MonitorRoundsAndReport ==
    /\ [](/\ RoundsBounded
          /\ PollsOncePerRound
          /\ StopsExactlyWhenCompleted
          /\ SleepsOnlyBetweenRounds
          /\ FinalReportOnce)
    /\ [][MonitorMeasure' < MonitorMeasure]_vars

\* Both indexers monitored: a wait after the first round, an early stop in
\* the second of three, then the final report.
C20_Witness ==
    /\ MonitorDone
    /\ monitor.indexer_type = "both"
    /\ monitor.max_checks = MaxChecks
    /\ Len(monitor.rounds) = 2
    /\ monitor.rounds[1].slept
    /\ RoundCompleted(monitor.rounds[2])
    /\ ~monitor.rounds[2].slept
    /\ monitor.final_reports = 1

\* ----------------------------------------------------------------------- C21
SetupOver == setup.pc \in {"returned", "raised"}

\* How many entries of a result list are for this state.
EntriesFor(list, code) ==
    Cardinality({ k \in 1..Len(list) :
                    "state" \in DOMAIN list[k] /\ list[k].state = code })

\* The calls of the log with this name that went to the service and were
\* accepted.
Created(name) ==
    \E k \in 1..Len(setup.calls) :
        /\ setup.calls[k].name = name
        /\ setup.calls[k].sent
        /\ ~setup.calls[k].raised

\* C21: setup_all_from_config processes every configured state once, in
\* order, and puts each in exactly one of success and failed; a failure in
\* one state does not prevent the following ones; a state is in success
\* only if its index, data source and two indexers were created.
C21_EveryStateOnceInOneList ==
    /\ SetupOver =>
          /\ setup.pos = Len(setup.config)
          /\ \A k \in 1..Len(setup.config) :
                EntriesFor(setup.success, setup.config[k].code)
                    + EntriesFor(setup.failed, setup.config[k].code) = 1
    /\ \A k \in 1..Len(setup.success) :
          LET code == setup.success[k].state
          IN  /\ Created(IndexName(code))
              /\ Created("datasource-" \o code)
              /\ Created("indexer-" \o code)
              /\ Created("indexer-" \o code \o "-common")

\* ----------------------------------------------------------------------- C22
CommonAttempts ==
    { k \in 1..Len(setup.calls) :
        setup.calls[k].op = "datasource"
            /\ setup.calls[k].name = "datasource-common" }

CommonRecorded ==
    { k \in 1..Len(setup.failed) : "resource" \in DOMAIN setup.failed[k] }

\* The state indexer of this state was created.
ReachedCommonIndexer(code) == Created("indexer-" \o code)

\* The common indexer of this state was attempted, on the common source.
CommonIndexerAttempted(code) ==
    \E k \in 1..Len(setup.calls) :
        /\ setup.calls[k].op = "indexer"
        /\ setup.calls[k].name = "indexer-" \o code \o "-common"
        /\ setup.calls[k].datasource = "datasource-common"

\* C22: the common data source is attempted exactly once, before any state;
\* its failure is recorded as resource common_datasource and the states are
\* still set up, each common indexer included.
C22_CommonDataSourceOnceFirst ==
    /\ setup.pc = "start" => setup.calls = << >>
    /\ setup.pc # "start" =>
          /\ CommonAttempts = {1}
          /\ IF setup.calls[1].raised
             THEN /\ CommonRecorded = {1}
                  /\ setup.failed[1] = [ resource |-> "common_datasource",
                                         error |-> setup.calls[1].error ]
             ELSE CommonRecorded = {}
    /\ setup.pc = "returned" => setup.pos = Len(setup.config)
    /\ \A k \in 1..setup.pos :
          ReachedCommonIndexer(setup.config[k].code)
              => CommonIndexerAttempted(setup.config[k].code)

\* The service refused the common data source, and a state was still set up
\* whole.
C22_Witness ==
    /\ setup.pc = "returned"
    /\ setup.calls[1].sent /\ setup.calls[1].raised
    /\ Len(setup.success) > 0
    /\ CommonIndexerAttempted(setup.success[1].state)

\* ----------------------------------------------------------------------- C23
DataSourceAttempts ==
    { k \in 1..Len(setup.calls) : setup.calls[k].op = "datasource" }

\* C23: the storage authentication follows a fixed precedence: managed
\* identity, then connection string, then account key; with none of them
\* the call raises ValueError and nothing is sent to the indexer client.
C23_StorageAuthPrecedence ==
    \A k \in DataSourceAttempts :
        LET c == setup.calls[k]
            e == setup.env
        IN  /\ e.use_managed_identity => c.auth = "managed_identity"
            /\ (~e.use_managed_identity /\ e.connection_string)
                   => c.auth = "connection_string"
            /\ (~e.use_managed_identity /\ ~e.connection_string
                    /\ e.storage_key) => c.auth = "account_key"
            /\ (e.use_managed_identity \/ e.connection_string
                    \/ e.storage_key) => c.sent
            /\ (~e.use_managed_identity /\ ~e.connection_string
                    /\ ~e.storage_key)
                   => ~c.sent /\ c.raised /\ c.kind = "ValueError"

\* All three are configured and the data source went out with the managed
\* identity.
C23_Witness ==
    /\ setup.env.use_managed_identity
    /\ setup.env.connection_string
    /\ setup.env.storage_key
    /\ \E k \in DataSourceAttempts :
          setup.calls[k].sent /\ setup.calls[k].auth = "managed_identity"

\* ----------------------------------------------------------------------- C28
\* The resources of one state, in the order of their creation.
StateResources(code) ==
    << IndexName(code), "datasource-" \o code, "indexer-" \o code,
       "indexer-" \o code \o "-common" >>

IsResourceOf(c, code) ==
    \E j \in 1..Len(StateResources(code)) : c.name = StateResources(code)[j]

RECURSIVE CallsOf(_, _)
CallsOf(calls, code) ==
    IF calls = << >> THEN << >>
    ELSE IF IsResourceOf(Head(calls), code)
         THEN << Head(calls) >> \o CallsOf(Tail(calls), code)
         ELSE CallsOf(Tail(calls), code)

\* C28: within one state the resources are created in the order index,
\* state data source, state indexer, common indexer, and the first step
\* that fails is the last of that state.
C28_OrderAndFirstFailureEnds ==
    \A code \in SetupCodes :
        LET cs == CallsOf(setup.calls, code)
        IN  /\ Len(cs) <= Len(StateResources(code))
            /\ \A j \in 1..Len(cs) :
                  /\ cs[j].name = StateResources(code)[j]
                  /\ cs[j].raised => j = Len(cs)
                  /\ (j > 1 /\ cs[j].op = "indexer")
                        => ~cs[1].raised /\ ~cs[2].raised

\* The data source of the first state failed after its index was created,
\* and the second state was set up whole.
C28_Witness ==
    /\ setup.pc = "returned"
    /\ Len(setup.config) = 2
    /\ LET cs == CallsOf(setup.calls, setup.config[1].code)
       IN  Len(cs) = 2 /\ cs[2].raised /\ cs[2].sent
    /\ Len(CallsOf(setup.calls, setup.config[2].code)) = 4
    /\ Len(setup.success) = 1

\* ----------------------------------------------------------------------- C24
\* The answers that are yes in some mix of capitals and small letters.
YesAnswers ==
    { <<a, b, c>> : a \in {"y", "Y"}, b \in {"e", "E"}, c \in {"s", "S"} }

\* C24: clean_all_containers deletes no blob and calls clean_container on
\* no container unless the answer to the prompt is yes, in any mix of
\* capitals; with any other answer it returns at once.
C24_NoDeleteWithoutYes ==
    (uploader.op = "clean" /\ uploader.answer \notin YesAnswers) =>
        /\ uploader.clean_calls = << >>
        /\ uploader.contents = uploader.initial
        /\ uploader.pc \in {"start", "done"}
        /\ uploader.pc = "done" => uploader.printed = << "Cancelled." >>

\* The answer was close to yes, there were blobs, and the call is over.
C24_Witness ==
    /\ uploader.op = "clean"
    /\ uploader.pc = "done"
    /\ uploader.answer = <<"y", "e", "s", " ">>
    /\ SumOf(uploader.initial) > 0
    /\ uploader.printed = << "Cancelled." >>

\* ----------------------------------------------------------------------- C26
\* C26: every test document has between 3 and 5 pages: document number
\* doc_num, counted from 1, gets 3 + (doc_num mod 3) pages.
C26_PagesBetweenThreeAndFive ==
    uploader.op = "create" =>
        \A k \in 1..Len(uploader.docs) :
            /\ uploader.docs[k].doc_num = k
            /\ uploader.docs[k].num_pages = 3 + (k % 3)
            /\ uploader.docs[k].num_pages \in {3, 4, 5}
            /\ uploader.docs[k].pages = uploader.docs[k].num_pages

\* All the documents asked for were made, enough of them to meet every
\* remainder twice.
C26_Witness ==
    /\ uploader.op = "create"
    /\ uploader.pc = "done"
    /\ Len(uploader.docs) = MaxNumDocs
    /\ { uploader.docs[k].num_pages : k \in 1..Len(uploader.docs) }
           = {3, 4, 5}

\* ----------------------------------------------------------------------- C29
\* The blobs that left each container.
ActuallyDeleted ==
    [ k \in 1..Len(uploader.initial) |->
        uploader.initial[k] - uploader.contents[k] ]

\* C29: clean_container returns the number of blobs it deleted, and the
\* total of clean_all_containers is the number of blobs deleted in all
\* containers, also when a delete fails part-way.
C29_TotalIsBlobsDeleted ==
    uploader.op = "clean" =>
        /\ \A k \in 1..Len(uploader.counts) :
              uploader.counts[k] = ActuallyDeleted[k]
        /\ uploader.total_deleted = SumOf(ActuallyDeleted)

\* ----------------------------------------------------------------------- C25
\* What is left of main; it decreases in every step.
RunnerMeasure ==
    CASE runner.pc = "start" -> Len(RunnerStateCodes) + 3
      [] runner.pc = "loop" -> (Len(RunnerStateCodes) - runner.pos) + 2
      [] runner.pc = "summarised" -> 1
      [] OTHER -> 0

\* C25: run_all_indexers calls run_indexer once for every state, in the
\* order of the configuration, whatever the earlier states gave, keeps one
\* flag per state, and ends.
C25_EveryStateOnceInOrder ==
    /\ [](/\ runner.calls = SubSeq(RunnerStateCodes, 1, Len(runner.calls))
          /\ Len(runner.results) = Len(runner.calls)
          /\ \A k \in 1..Len(runner.results) :
                runner.results[k]
                    <=> { IndexerName(runner.calls[k], kind) :
                            kind \in IndexerKinds } \subseteq runner.started
          /\ runner.pc \in {"summarised", "done"}
                => runner.calls = RunnerStateCodes)
    /\ [][RunnerMeasure' < RunnerMeasure]_vars

\* The first state failed and all six were still run.
C25_Witness ==
    /\ runner.pc = "summarised"
    /\ runner.calls = RunnerStateCodes
    /\ ~runner.results[1]
    /\ runner.results[Len(runner.results)]

\* ----------------------------------------------------------------------- C27
OperatorReturned == runner.pc = "returned"

\* C27: run_indexer and reset_indexer with type both attempt the state
\* indexer, then the common one, also when the first failed; they return
\* True exactly when something was attempted and every attempt succeeded;
\* an unknown state code or another type attempts nothing and gives False.
C27_BothAttemptedInOrder ==
    OperatorReturned =>
        LET a == runner.attempted
            state == [ name |-> IndexerName(runner.state_code, "state"),
                       ok |-> runner.ok["state"] ]
            common == [ name |-> IndexerName(runner.state_code, "common"),
                        ok |-> runner.ok["common"] ]
            known == runner.state_code \in
                         { RunnerStateCodes[k] :
                             k \in 1..Len(RunnerStateCodes) }
        IN  /\ ~known => a = << >> /\ ~runner.returned
            /\ (known /\ runner.indexer_type = "both")
                   => a = << state, common >>
            /\ (known /\ runner.indexer_type = "state") => a = << state >>
            /\ (known /\ runner.indexer_type = "common") => a = << common >>
            /\ runner.indexer_type \notin {"state", "common", "both"}
                   => a = << >> /\ ~runner.returned
            /\ runner.returned
                   <=> (a # << >> /\ \A k \in 1..Len(a) : a[k].ok)

\* A reset of both indexers whose first call failed and whose second went
\* through.
C27_Witness ==
    /\ OperatorReturned
    /\ runner.op = "reset"
    /\ runner.indexer_type = "both"
    /\ Len(runner.attempted) = 2
    /\ ~runner.attempted[1].ok
    /\ runner.attempted[2].ok
    /\ ~runner.returned

\* ----------------------------------------------------------------------- C30
\* C30: a cap of 0 in the request is treated as absent: every search of the
\* call goes out with the configured top_k, the merged result is cut at
\* top_k, and it is not empty when documents were collected.
C30_ZeroCapIsDefault ==
    (pc # "idle" /\ request.top = Some(0)) =>
        /\ \A k \in 1..Len(backend_calls) : backend_calls[k].top = top_k
        /\ \A k \in 1..Len(search_calls) :
              ~search_calls[k].raised =>
                  Len(search_calls[k].results) <= top_k
        /\ Returned =>
              /\ result.top_results = Take(result.all_results, top_k)
              /\ Len(result.all_results) > 0 => Len(result.top_results) > 0

\* A call with cap 0 collected more than top_k documents and returned
\* top_k of them.
C30_Witness ==
    /\ Returned
    /\ request.top = Some(0)
    /\ Len(result.all_results) > top_k
    /\ Len(result.top_results) = top_k

====
